---- MODULE Spec2Model ----
(***************************************************************************)
(* AugmentedChords: the guitar tuner engine of src/tuner.ts.               *)
(*                                                                         *)
(* Numbers.  The program computes in IEEE doubles.  Here a frequency is an *)
(* integer number of millihertz and a dimensionless quantity (signal       *)
(* strength, peak strength, score) an integer number of 1/10000; every     *)
(* product or quotient of the source is rounded to the nearest unit.       *)
(* Comparisons that the source makes on quotients are made on the cross    *)
(* products, which is exact.  A nullable field is <<>> (null) or <<v>>.    *)
(*                                                                         *)
(* Audio.  A chunk is given by what calculateSignalStrength and            *)
(* calculateAutocorrelation compute from its samples: its RMS amplitude    *)
(* and its autocorrelation profile (a lobe at lag 0 and one lobe per       *)
(* periodicity of the signal).                                             *)
(***************************************************************************)
EXTENDS Integers, Sequences, FiniteSets, TLC

\* ------------------------------------------------------------------ units
\* x Hz in frequency units (millihertz)
Hz(x) == x * 1000

\* ------------------------------------------------------------ arithmetic
Abs(x) == IF x < 0 THEN -x ELSE x
Min2(a, b) == IF a < b THEN a ELSE b
Max2(a, b) == IF a > b THEN a ELSE b
\* a / b rounded to the nearest integer (b > 0), halves up like Math.round
RoundDiv(a, b) == (2 * a + b) \div (2 * b)
\* the dimensionless value n / d in units of 1/10000
Frac(n, d) == RoundDiv(n * 10000, d)
\* Math.floor(a / b) and Math.ceil(a / b) for b > 0
FloorDiv(a, b) == a \div b
CeilDiv(a, b) == -((-a) \div b)

\* Null and present values of the nullable fields of TunerState
Null == <<>>
Some(v) == <<v>>
Val(o) == o[1]

\* ---------------------------------------------------------------- strings
\* JS string primitives on TLA+ strings: s.charAt(i-1), s.includes(sub),
\* s.startsWith(p), s.toUpperCase()
CharAt(s, i) == SubSeq(s, i, i)
Includes(s, sub) ==
    \E i \in 1..(Len(s) - Len(sub) + 1) : SubSeq(s, i, i + Len(sub) - 1) = sub
StartsWith(s, p) == Len(p) <= Len(s) /\ SubSeq(s, 1, Len(p)) = p
LowerLetters == "abcdefghijklmnopqrstuvwxyz"
UpperLetters == "ABCDEFGHIJKLMNOPQRSTUVWXYZ"
UpperOf == [k \in 1..26 |-> <<CharAt(LowerLetters, k), CharAt(UpperLetters, k)>>]
LowerSet == { UpperOf[k][1] : k \in 1..26 }
UpperMap == [c \in LowerSet |-> (CHOOSE k \in 1..26 : UpperOf[k][1] = c)]
UpperChar(c) == IF c \in LowerSet THEN UpperOf[UpperMap[c]][2] ELSE c
RECURSIVE ToUpperCase(_)
ToUpperCase(s) ==
    IF Len(s) = 0 THEN s
    ELSE UpperChar(CharAt(s, 1)) \o ToUpperCase(SubSeq(s, 2, Len(s)))

\* -------------------------------------------------------------- constants
NOTE_FREQUENCIES == <<
    [note |-> "E2", freq |-> 82410],
    [note |-> "A2", freq |-> 110000],
    [note |-> "D3", freq |-> 146830],
    [note |-> "G3", freq |-> 196000],
    [note |-> "B3", freq |-> 246940],
    [note |-> "E4", freq |-> 329630] >>
NOTE_NAMES == << "C", "C#", "D", "D#", "E", "F", "F#", "G", "G#", "A", "A#", "B" >>
SAMPLE_RATE == 16000
MIN_FREQUENCY == 70
MAX_FREQUENCY == 350

\* ------------------------------------------------------------------ cents
\* Math.log2 by table: CentsThreshold[k + 1] = ceil(2^((k - 1/2)/1200) * 2^20)
\* for k = 0..1200, the least ratio (in units of 2^-20) whose 1200*log2
\* rounds to k or more.
CentsThreshold == <<
    1048274, 1048879, 1049485, 1050092, 1050699, 1051306, 1051913, 1052521, 1053129, 1053737,
    1054346, 1054955, 1055565, 1056175, 1056785, 1057396, 1058007, 1058618, 1059230, 1059842,
    1060454, 1061067, 1061680, 1062293, 1062907, 1063521, 1064136, 1064751, 1065366, 1065981,
    1066597, 1067213, 1067830, 1068447, 1069064, 1069682, 1070300, 1070919, 1071537, 1072156,
    1072776, 1073396, 1074016, 1074637, 1075257, 1075879, 1076500, 1077122, 1077745, 1078367,
    1078990, 1079614, 1080238, 1080862, 1081486, 1082111, 1082736, 1083362, 1083988, 1084614,
    1085241, 1085868, 1086495, 1087123, 1087751, 1088380, 1089009, 1089638, 1090267, 1090897,
    1091528, 1092158, 1092789, 1093421, 1094053, 1094685, 1095317, 1095950, 1096583, 1097217,
    1097851, 1098485, 1099120, 1099755, 1100390, 1101026, 1101662, 1102299, 1102936, 1103573,
    1104211, 1104849, 1105487, 1106126, 1106765, 1107404, 1108044, 1108684, 1109325, 1109966,
    1110607, 1111249, 1111891, 1112533, 1113176, 1113819, 1114463, 1115107, 1115751, 1116396,
    1117041, 1117686, 1118332, 1118978, 1119625, 1120272, 1120919, 1121567, 1122215, 1122863,
    1123512, 1124161, 1124811, 1125460, 1126111, 1126761, 1127412, 1128064, 1128716, 1129368,
    1130020, 1130673, 1131327, 1131980, 1132634, 1133289, 1133943, 1134599, 1135254, 1135910,
    1136566, 1137223, 1137880, 1138538, 1139196, 1139854, 1140512, 1141171, 1141831, 1142490,
    1143151, 1143811, 1144472, 1145133, 1145795, 1146457, 1147119, 1147782, 1148445, 1149109,
    1149773, 1150437, 1151102, 1151767, 1152432, 1153098, 1153764, 1154431, 1155098, 1155766,
    1156433, 1157101, 1157770, 1158439, 1159108, 1159778, 1160448, 1161119, 1161790, 1162461,
    1163132, 1163804, 1164477, 1165150, 1165823, 1166497, 1167171, 1167845, 1168520, 1169195,
    1169870, 1170546, 1171223, 1171899, 1172576, 1173254, 1173932, 1174610, 1175289, 1175968,
    1176647, 1177327, 1178007, 1178688, 1179369, 1180051, 1180732, 1181415, 1182097, 1182780,
    1183464, 1184147, 1184832, 1185516, 1186201, 1186887, 1187572, 1188258, 1188945, 1189632,
    1190319, 1191007, 1191695, 1192384, 1193073, 1193762, 1194452, 1195142, 1195833, 1196523,
    1197215, 1197907, 1198599, 1199291, 1199984, 1200678, 1201371, 1202065, 1202760, 1203455,
    1204150, 1204846, 1205542, 1206239, 1206936, 1207633, 1208331, 1209029, 1209727, 1210426,
    1211126, 1211826, 1212526, 1213226, 1213927, 1214629, 1215330, 1216033, 1216735, 1217438,
    1218142, 1218846, 1219550, 1220254, 1220960, 1221665, 1222371, 1223077, 1223784, 1224491,
    1225198, 1225906, 1226615, 1227323, 1228032, 1228742, 1229452, 1230162, 1230873, 1231584,
    1232296, 1233008, 1233720, 1234433, 1235146, 1235860, 1236574, 1237289, 1238003, 1238719,
    1239434, 1240151, 1240867, 1241584, 1242301, 1243019, 1243737, 1244456, 1245175, 1245895,
    1246614, 1247335, 1248055, 1248777, 1249498, 1250220, 1250942, 1251665, 1252388, 1253112,
    1253836, 1254560, 1255285, 1256011, 1256736, 1257462, 1258189, 1258916, 1259643, 1260371,
    1261099, 1261828, 1262557, 1263287, 1264017, 1264747, 1265478, 1266209, 1266940, 1267672,
    1268405, 1269138, 1269871, 1270605, 1271339, 1272073, 1272808, 1273544, 1274280, 1275016,
    1275753, 1276490, 1277227, 1277965, 1278704, 1279443, 1280182, 1280921, 1281662, 1282402,
    1283143, 1283884, 1284626, 1285368, 1286111, 1286854, 1287598, 1288342, 1289086, 1289831,
    1290576, 1291322, 1292068, 1292815, 1293562, 1294309, 1295057, 1295805, 1296554, 1297303,
    1298052, 1298802, 1299553, 1300304, 1301055, 1301807, 1302559, 1303312, 1304065, 1304818,
    1305572, 1306326, 1307081, 1307836, 1308592, 1309348, 1310105, 1310862, 1311619, 1312377,
    1313135, 1313894, 1314653, 1315413, 1316173, 1316933, 1317694, 1318455, 1319217, 1319979,
    1320742, 1321505, 1322269, 1323033, 1323797, 1324562, 1325327, 1326093, 1326859, 1327626,
    1328393, 1329160, 1329928, 1330697, 1331466, 1332235, 1333005, 1333775, 1334546, 1335317,
    1336088, 1336860, 1337633, 1338406, 1339179, 1339953, 1340727, 1341501, 1342277, 1343052,
    1343828, 1344605, 1345381, 1346159, 1346937, 1347715, 1348494, 1349273, 1350052, 1350832,
    1351613, 1352394, 1353175, 1353957, 1354739, 1355522, 1356305, 1357089, 1357873, 1358658,
    1359443, 1360228, 1361014, 1361800, 1362587, 1363375, 1364162, 1364950, 1365739, 1366528,
    1367318, 1368108, 1368898, 1369689, 1370481, 1371272, 1372065, 1372858, 1373651, 1374444,
    1375239, 1376033, 1376828, 1377624, 1378420, 1379216, 1380013, 1380810, 1381608, 1382407,
    1383205, 1384004, 1384804, 1385604, 1386405, 1387206, 1388007, 1388809, 1389612, 1390415,
    1391218, 1392022, 1392826, 1393631, 1394436, 1395242, 1396048, 1396855, 1397662, 1398469,
    1399277, 1400086, 1400895, 1401704, 1402514, 1403324, 1404135, 1404947, 1405758, 1406571,
    1407383, 1408196, 1409010, 1409824, 1410639, 1411454, 1412269, 1413085, 1413902, 1414719,
    1415536, 1416354, 1417172, 1417991, 1418811, 1419630, 1420451, 1421271, 1422092, 1422914,
    1423736, 1424559, 1425382, 1426206, 1427030, 1427854, 1428679, 1429505, 1430331, 1431157,
    1431984, 1432811, 1433639, 1434467, 1435296, 1436126, 1436955, 1437786, 1438616, 1439448,
    1440279, 1441111, 1441944, 1442777, 1443611, 1444445, 1445280, 1446115, 1446950, 1447786,
    1448623, 1449460, 1450297, 1451135, 1451974, 1452813, 1453652, 1454492, 1455332, 1456173,
    1457015, 1457856, 1458699, 1459542, 1460385, 1461229, 1462073, 1462918, 1463763, 1464609,
    1465455, 1466302, 1467149, 1467997, 1468845, 1469693, 1470543, 1471392, 1472242, 1473093,
    1473944, 1474796, 1475648, 1476501, 1477354, 1478207, 1479061, 1479916, 1480771, 1481627,
    1482483, 1483339, 1484196, 1485054, 1485912, 1486770, 1487629, 1488489, 1489349, 1490210,
    1491071, 1491932, 1492794, 1493657, 1494520, 1495383, 1496247, 1497112, 1497977, 1498842,
    1499708, 1500575, 1501442, 1502309, 1503177, 1504046, 1504915, 1505784, 1506654, 1507525,
    1508396, 1509268, 1510140, 1511012, 1511885, 1512759, 1513633, 1514507, 1515382, 1516258,
    1517134, 1518011, 1518888, 1519765, 1520643, 1521522, 1522401, 1523281, 1524161, 1525042,
    1525923, 1526804, 1527687, 1528569, 1529452, 1530336, 1531220, 1532105, 1532990, 1533876,
    1534762, 1535649, 1536536, 1537424, 1538312, 1539201, 1540091, 1540980, 1541871, 1542762,
    1543653, 1544545, 1545437, 1546330, 1547224, 1548118, 1549012, 1549907, 1550803, 1551699,
    1552595, 1553492, 1554390, 1555288, 1556187, 1557086, 1557986, 1558886, 1559786, 1560688,
    1561589, 1562492, 1563395, 1564298, 1565202, 1566106, 1567011, 1567916, 1568822, 1569729,
    1570636, 1571543, 1572451, 1573360, 1574269, 1575178, 1576089, 1576999, 1577910, 1578822,
    1579734, 1580647, 1581560, 1582474, 1583388, 1584303, 1585219, 1586135, 1587051, 1587968,
    1588886, 1589804, 1590722, 1591641, 1592561, 1593481, 1594402, 1595323, 1596245, 1597167,
    1598090, 1599013, 1599937, 1600862, 1601787, 1602712, 1603638, 1604565, 1605492, 1606419,
    1607348, 1608276, 1609205, 1610135, 1611066, 1611996, 1612928, 1613860, 1614792, 1615725,
    1616659, 1617593, 1618527, 1619463, 1620398, 1621335, 1622271, 1623209, 1624147, 1625085,
    1626024, 1626963, 1627904, 1628844, 1629785, 1630727, 1631669, 1632612, 1633555, 1634499,
    1635443, 1636388, 1637334, 1638280, 1639226, 1640174, 1641121, 1642070, 1643018, 1643968,
    1644917, 1645868, 1646819, 1647770, 1648722, 1649675, 1650628, 1651582, 1652536, 1653491,
    1654446, 1655402, 1656359, 1657316, 1658273, 1659232, 1660190, 1661149, 1662109, 1663070,
    1664030, 1664992, 1665954, 1666917, 1667880, 1668843, 1669808, 1670772, 1671738, 1672704,
    1673670, 1674637, 1675605, 1676573, 1677542, 1678511, 1679481, 1680451, 1681422, 1682394,
    1683366, 1684338, 1685311, 1686285, 1687259, 1688234, 1689210, 1690186, 1691162, 1692140,
    1693117, 1694095, 1695074, 1696054, 1697034, 1698014, 1698995, 1699977, 1700959, 1701942,
    1702925, 1703909, 1704894, 1705879, 1706864, 1707851, 1708837, 1709825, 1710813, 1711801,
    1712790, 1713780, 1714770, 1715761, 1716752, 1717744, 1718737, 1719730, 1720723, 1721718,
    1722712, 1723708, 1724704, 1725700, 1726697, 1727695, 1728693, 1729692, 1730691, 1731691,
    1732692, 1733693, 1734695, 1735697, 1736700, 1737703, 1738707, 1739712, 1740717, 1741723,
    1742729, 1743736, 1744744, 1745752, 1746761, 1747770, 1748780, 1749790, 1750801, 1751813,
    1752825, 1753838, 1754851, 1755865, 1756879, 1757895, 1758910, 1759926, 1760943, 1761961,
    1762979, 1763997, 1765017, 1766037, 1767057, 1768078, 1769099, 1770122, 1771144, 1772168,
    1773192, 1774216, 1775241, 1776267, 1777293, 1778320, 1779348, 1780376, 1781405, 1782434,
    1783464, 1784494, 1785525, 1786557, 1787589, 1788622, 1789655, 1790689, 1791724, 1792759,
    1793795, 1794832, 1795869, 1796906, 1797945, 1798983, 1800023, 1801063, 1802103, 1803145,
    1804187, 1805229, 1806272, 1807316, 1808360, 1809405, 1810450, 1811496, 1812543, 1813590,
    1814638, 1815687, 1816736, 1817785, 1818836, 1819887, 1820938, 1821990, 1823043, 1824096,
    1825150, 1826205, 1827260, 1828316, 1829372, 1830429, 1831487, 1832545, 1833604, 1834663,
    1835723, 1836784, 1837845, 1838907, 1839969, 1841033, 1842096, 1843161, 1844226, 1845291,
    1846357, 1847424, 1848492, 1849560, 1850628, 1851698, 1852767, 1853838, 1854909, 1855981,
    1857053, 1858126, 1859200, 1860274, 1861349, 1862424, 1863500, 1864577, 1865654, 1866732,
    1867811, 1868890, 1869970, 1871050, 1872132, 1873213, 1874296, 1875379, 1876462, 1877546,
    1878631, 1879717, 1880803, 1881889, 1882977, 1884065, 1885153, 1886242, 1887332, 1888423,
    1889514, 1890606, 1891698, 1892791, 1893885, 1894979, 1896074, 1897169, 1898266, 1899362,
    1900460, 1901558, 1902657, 1903756, 1904856, 1905956, 1907058, 1908160, 1909262, 1910365,
    1911469, 1912573, 1913678, 1914784, 1915891, 1916998, 1918105, 1919213, 1920322, 1921432,
    1922542, 1923653, 1924764, 1925876, 1926989, 1928103, 1929217, 1930331, 1931447, 1932563,
    1933679, 1934796, 1935914, 1937033, 1938152, 1939272, 1940392, 1941514, 1942635, 1943758,
    1944881, 1946005, 1947129, 1948254, 1949380, 1950506, 1951633, 1952761, 1953889, 1955018,
    1956147, 1957278, 1958409, 1959540, 1960672, 1961805, 1962939, 1964073, 1965208, 1966343,
    1967479, 1968616, 1969754, 1970892, 1972030, 1973170, 1974310, 1975451, 1976592, 1977734,
    1978877, 1980020, 1981164, 1982309, 1983454, 1984600, 1985747, 1986894, 1988042, 1989191,
    1990340, 1991490, 1992641, 1993792, 1994944, 1996097, 1997250, 1998404, 1999559, 2000714,
    2001870, 2003027, 2004184, 2005342, 2006501, 2007660, 2008820, 2009981, 2011142, 2012304,
    2013467, 2014630, 2015794, 2016959, 2018124, 2019290, 2020457, 2021625, 2022793, 2023961,
    2025131, 2026301, 2027472, 2028643, 2029815, 2030988, 2032162, 2033336, 2034511, 2035686,
    2036862, 2038039, 2039217, 2040395, 2041574, 2042753, 2043934, 2045115, 2046296, 2047479,
    2048662, 2049845, 2051030, 2052215, 2053401, 2054587, 2055774, 2056962, 2058150, 2059340,
    2060529, 2061720, 2062911, 2064103, 2065296, 2066489, 2067683, 2068878, 2070073, 2071269,
    2072466, 2073663, 2074862, 2076060, 2077260, 2078460, 2079661, 2080863, 2082065, 2083268,
    2084472, 2085676, 2086881, 2088087, 2089293, 2090501, 2091708, 2092917, 2094126, 2095336,
    2096547 >>
\* floor((num / den) * 2^bits) for den <= num < 2 * den, by long division
RECURSIVE LongDiv(_, _, _, _)
LongDiv(q, rem, den, bits) ==
    IF bits = 0 THEN q
    ELSE IF 2 * rem >= den
         THEN LongDiv(2 * q + 1, 2 * rem - den, den, bits - 1)
         ELSE LongDiv(2 * q, 2 * rem, den, bits - 1)
\* the greatest k in lo..hi with CentsThreshold[k + 1] <= q (lo always qualifies)
RECURSIVE CentsSearch(_, _, _)
CentsSearch(q, lo, hi) ==
    IF lo = hi THEN lo
    ELSE LET mid == (lo + hi + 1) \div 2
         IN IF CentsThreshold[mid + 1] <= q
            THEN CentsSearch(q, mid, hi)
            ELSE CentsSearch(q, lo, mid - 1)
\* Math.round(1200 * Math.log2(num / den)) for num, den > 0
RECURSIVE RoundCents(_, _)
RoundCents(num, den) ==
    IF num < den THEN RoundCents(2 * num, den) - 1200
    ELSE IF num >= 2 * den THEN RoundCents(num, 2 * den) + 1200
    ELSE CentsSearch(LongDiv(1, num - den, den, 20), 0, 1200)

calculateCentsDeviationSwapped(detectedFreq, targetFreq) ==
    RoundCents(targetFreq, detectedFreq)

calculateCentsDeviation(detectedFreq, targetFreq) ==
    RoundCents(detectedFreq, targetFreq)

\* ------------------------------------------------------------------ inputs
\* most processTunerAudioChunk calls in a run
MaxChunks == 3

\* command texts, as onTranscription passes them (and two in mixed case)
Commands == {
    "tune to a",
    "Tune  to G#",
    "tune to chord mode",
    "tuner mode, tune to bb",
    "exit tuner mode",
    "exit tuner please",
    "chord mode",
    "let's go to tuner mode now",
    "tune guitar",
    "tune to h",
    "next",
    "play yesterday",
    "help",
    "go to the chorus",
    "go to bridge" }
\* commands that name every string as the target, and other notes
TargetCommands == {
    "tune to e", "tune to a", "tune to d", "tune to g", "tune to b",
    "tune to c#", "tune to eb", "tune to f",
    "tune guitar", "exit tuner mode" }

Audio(rms, lobes) == [rms |-> rms, lobes |-> lobes]
NoAudio == Audio(0, {})
\* audio chunks: too quiet; loud with no periodicity; a period of 45 samples
\* (355.6 Hz); the A string; the A string slightly flat; the low E string with
\* its octave; the G string
Chunks == {
    Audio(5, {<<145, 900>>}),
    Audio(500, {}),
    Audio(500, {<<45, 800>>}),
    Audio(500, {<<145, 900>>}),
    Audio(500, {<<147, 900>>}),
    Audio(500, {<<194, 600>>, <<97, 900>>}),
    Audio(500, {<<82, 700>>}) }

\* a pure tone whose period is lag samples, and the lags of the steady-tone runs
Tone(lag) == Audio(500, {<<lag, 900>>})
SteadyLags == {46, 97, 145, 147, 150, 194, 228}
SteadyChunks == { Tone(lag) : lag \in SteadyLags }
\* most chunks before the steady tone starts, and most chunks of the steady tone
MaxWarmup == 2
MaxSteadyChunks == 8

\* ------------------------------------------------------------ note mapping
\* the loop of findClosestGuitarNote from entry k on; smallestDifference is
\* Null while it is Infinity
RECURSIVE closestNoteLoop(_, _, _, _)
closestNoteLoop(frequency, k, closestNote, smallestDifference) ==
    IF k > Len(NOTE_FREQUENCIES) THEN closestNote
    ELSE LET note == NOTE_FREQUENCIES[k].note
             difference == Abs(frequency - NOTE_FREQUENCIES[k].freq)
             take == closestNoteLoop(frequency, k + 1, CharAt(note, 1), Some(difference))
             skip == closestNoteLoop(frequency, k + 1, closestNote, smallestDifference)
         IN IF note = "E2" /\ difference < Hz(12)
            THEN IF smallestDifference = Null
                    \/ 2 * difference < 3 * Val(smallestDifference)
                 THEN take ELSE skip
            ELSE IF smallestDifference = Null \/ difference < Val(smallestDifference)
                 THEN take ELSE skip

RECURSIVE closestNoteLoopLatest(_, _, _, _)
\* the loop of findClosestGuitarNote taking the later of two entries equally
\* near
closestNoteLoopLatest(frequency, k, closestNote, smallestDifference) ==
    IF k > Len(NOTE_FREQUENCIES) THEN closestNote
    ELSE LET note == NOTE_FREQUENCIES[k].note
             difference == Abs(frequency - NOTE_FREQUENCIES[k].freq)
         IN IF smallestDifference = Null \/ difference <= Val(smallestDifference)
            THEN closestNoteLoopLatest(frequency, k + 1, CharAt(note, 1),
                                       Some(difference))
            ELSE closestNoteLoopLatest(frequency, k + 1, closestNote,
                                       smallestDifference)
findClosestGuitarNoteLatest(frequency) ==
    closestNoteLoopLatest(frequency, 1, "", Null)

findClosestGuitarNoteSkippingE2(frequency) ==
    closestNoteLoop(frequency, 2, "", Null)

findClosestGuitarNote(frequency) == closestNoteLoop(frequency, 1, "", Null)

RECURSIVE targetFrequencyLoop(_, _)
targetFrequencyLoop(note, k) ==
    IF k > Len(NOTE_FREQUENCIES) THEN NOTE_FREQUENCIES[1].freq
    ELSE IF StartsWith(NOTE_FREQUENCIES[k].note, note) THEN NOTE_FREQUENCIES[k].freq
    ELSE targetFrequencyLoop(note, k + 1)

getTargetFrequencyLastMatch(note) ==
    LET matches == {k \in 1..Len(NOTE_FREQUENCIES) :
                        StartsWith(NOTE_FREQUENCIES[k].note, note)}
    IN  IF matches = {} THEN NOTE_FREQUENCIES[1].freq
        ELSE NOTE_FREQUENCIES[CHOOSE k \in matches :
                                  \A j \in matches : j <= k].freq

getTargetFrequency(note) == targetFrequencyLoop(note, 1)

\* Math.round(12 * Math.log2(num / den)) for num, den > 0, by table:
\* SemitoneThreshold[k + 1] = ceil(2^((k - 1/2)/12) * 2^20) for k = 0..12
SemitoneThreshold == <<
    1018726, 1079302, 1143481, 1211476, 1283514, 1359835, 1440695,
    1526363, 1617126, 1713285, 1815162, 1923097, 2037451 >>
RECURSIVE RoundHalfSteps(_, _)
RoundHalfSteps(num, den) ==
    IF num < den THEN RoundHalfSteps(2 * num, den) - 12
    ELSE IF num >= 2 * den THEN RoundHalfSteps(num, 2 * den) + 12
    ELSE LET q == LongDiv(1, num - den, den, 20)
         IN  Cardinality({k \in 1..12 : SemitoneThreshold[k + 1] <= q})

\* the % of the source: the remainder has the sign of the dividend
Remainder(a, b) == IF a >= 0 THEN a % b ELSE -((-a) % b)

octaveTruncated(halfStepFromA4) ==
    IF halfStepFromA4 + 9 >= 0 THEN 4 + (halfStepFromA4 + 9) \div 12
    ELSE 4 - ((-(halfStepFromA4 + 9)) \div 12)

\* 4 + Math.floor((halfStepFromA4 + 9) / 12)
octave(halfStepFromA4) == 4 + FloorDiv(halfStepFromA4 + 9, 12)

frequencyToNote(frequency) ==
    LET A4 == Hz(440)
        halfStepFromA4 == RoundHalfSteps(frequency, A4)
        noteIndex == Remainder(halfStepFromA4 + 9, 12)
    IN  IF noteIndex < 0
        THEN NOTE_NAMES[noteIndex + 12 + 1] \o ToString(octave(halfStepFromA4))
        ELSE NOTE_NAMES[noteIndex + 1] \o ToString(octave(halfStepFromA4))

\* ------------------------------------------------------------- tuner state
initTunerState ==
    [isActive |-> FALSE, targetNote |-> "E", detectedNote |-> Null,
     detectedFrequency |-> Null, deviation |-> Null]

\* -------------------------------------------------------- command parsing
\* the regular expression /tune\s+to\s+([A-G](?:#|b)?)/i
IsSpace(c) == c \in {" ", "\t", "\n"}
EqualsIgnoreCase(s, lit) == ToUpperCase(s) = ToUpperCase(lit)
\* the first index from i on that holds no white space (Len(s) + 1 if none)
RECURSIVE SkipSpaces(_, _)
SkipSpaces(s, i) ==
    IF i <= Len(s) /\ IsSpace(CharAt(s, i)) THEN SkipSpaces(s, i + 1) ELSE i
\* literal lit stands at index i of s, case-insensitively
LiteralAt(s, i, lit) ==
    i + Len(lit) - 1 <= Len(s) /\ EqualsIgnoreCase(SubSeq(s, i, i + Len(lit) - 1), lit)
\* \s+ stands at index i of s
SpacesAt(s, i) == i <= Len(s) /\ IsSpace(CharAt(s, i))
\* mutant: the pattern takes any letter as a note, /tune\s+to\s+([A-Z](?:#|b)?)/i
IsAnyLetter(c) == ToUpperCase(c) \in { CharAt(UpperLetters, k) : k \in 1..26 }
IsNoteLetter(c) == ToUpperCase(c) \in {"A", "B", "C", "D", "E", "F", "G"}
IsAccidental(c) == c = "#" \/ ToUpperCase(c) = "B"
\* where the capture group starts when the pattern matches from index i (0 if not)
TuneToGroupAt(s, i) ==
    IF ~(LiteralAt(s, i, "tune") /\ SpacesAt(s, i + 4)) THEN 0
    ELSE LET j == SkipSpaces(s, i + 4)
         IN IF ~(LiteralAt(s, j, "to") /\ SpacesAt(s, j + 2)) THEN 0
            ELSE LET k == SkipSpaces(s, j + 2)
                 IN IF k <= Len(s) /\ IsNoteLetter(CharAt(s, k)) THEN k ELSE 0
\* command.match(...): Null, or the text of capture group 1 of the leftmost match
tuneToMatchOf(command) ==
    LET starts == { i \in 1..Len(command) : TuneToGroupAt(command, i) > 0 }
    IN IF starts = {} THEN Null
       ELSE LET i == CHOOSE i \in starts : \A o \in starts : i <= o
                k == TuneToGroupAt(command, i)
            IN IF k + 1 <= Len(command) /\ IsAccidental(CharAt(command, k + 1))
               THEN Some(SubSeq(command, k, k + 1))
               ELSE Some(CharAt(command, k))
isExitCommandOf(command) ==
    Includes(command, "exit tuner") \/ Includes(command, "chord mode")
isEnterCommandOf(command) ==
    Includes(command, "tuner mode") \/ Includes(command, "tune guitar")

\* the three tests of handleTunerCommand, with their results on the command
\* texts of the model computed once
CommandTable ==
    [command \in Commands \cup TargetCommands |->
        [tuneTo |-> tuneToMatchOf(command),
         exit |-> isExitCommandOf(command),
         enter |-> isEnterCommandOf(command)]]
tuneToMatch(command) ==
    IF command \in DOMAIN CommandTable THEN CommandTable[command].tuneTo
    ELSE tuneToMatchOf(command)
IsExitCommand(command) ==
    IF command \in DOMAIN CommandTable THEN CommandTable[command].exit
    ELSE isExitCommandOf(command)
IsEnterCommand(command) ==
    IF command \in DOMAIN CommandTable THEN CommandTable[command].enter
    ELSE isEnterCommandOf(command)

\* mutant: the enter phrases are tested first
handleTunerCommandEnterFirst(command, tunerState) ==
    IF IsEnterCommand(command)
    THEN [tunerState EXCEPT !.isActive = TRUE]
    ELSE IF tuneToMatch(command) # Null
    THEN [tunerState EXCEPT !.targetNote = ToUpperCase(Val(tuneToMatch(command)))]
    ELSE IF IsExitCommand(command)
    THEN [tunerState EXCEPT !.isActive = FALSE]
    ELSE tunerState

\* mutant: the captured note is stored as spoken, without toUpperCase()
handleTunerCommandKeepCase(command, tunerState) ==
    IF tuneToMatch(command) # Null
    THEN [tunerState EXCEPT !.targetNote = Val(tuneToMatch(command))]
    ELSE IF IsExitCommand(command)
    THEN [tunerState EXCEPT !.isActive = FALSE]
    ELSE IF IsEnterCommand(command)
    THEN [tunerState EXCEPT !.isActive = TRUE]
    ELSE tunerState

\* mutant: leaving tuner mode clears the last detection
handleTunerCommandExitClears(command, tunerState) ==
    IF tuneToMatch(command) # Null
    THEN [tunerState EXCEPT !.targetNote = ToUpperCase(Val(tuneToMatch(command)))]
    ELSE IF IsExitCommand(command)
    THEN [tunerState EXCEPT !.isActive = FALSE, !.detectedNote = Null,
                            !.detectedFrequency = Null, !.deviation = Null]
    ELSE IF IsEnterCommand(command)
    THEN [tunerState EXCEPT !.isActive = TRUE]
    ELSE tunerState

\* mutant: entering tuner mode resets the target to the default E
handleTunerCommandEnterResets(command, tunerState) ==
    IF tuneToMatch(command) # Null
    THEN [tunerState EXCEPT !.targetNote = ToUpperCase(Val(tuneToMatch(command)))]
    ELSE IF IsExitCommand(command)
    THEN [tunerState EXCEPT !.isActive = FALSE]
    ELSE IF IsEnterCommand(command)
    THEN [tunerState EXCEPT !.isActive = TRUE, !.targetNote = "E"]
    ELSE tunerState

handleTunerCommand(command, tunerState) ==
    IF tuneToMatch(command) # Null
    THEN [tunerState EXCEPT !.targetNote = ToUpperCase(Val(tuneToMatch(command)))]
    ELSE IF IsExitCommand(command)
    THEN [tunerState EXCEPT !.isActive = FALSE]
    ELSE IF IsEnterCommand(command)
    THEN [tunerState EXCEPT !.isActive = TRUE]
    ELSE tunerState

\* ---------------------------------------------------------- pitch detection
\* samples per audio chunk
ChunkLength == 256

\* An audio chunk: [rms |-> RMS amplitude of the samples (units of 1/10000),
\*                  lobes |-> set of <<lag, height>>, the periodicities].
\* Its autocorrelation profile, indexed by lag 0..ChunkLength-1: the energy
\* lobe at lag 0 and one triangular lobe per periodicity.
LobeAt(lobe, i) == Max2(0, lobe[2] - 50 * Abs(i - lobe[1]))
RECURSIVE MaxOver(_, _)
MaxOver(S, i) ==
    IF S = {} THEN 0
    ELSE LET l == CHOOSE l \in S : TRUE
         IN Max2(LobeAt(l, i), MaxOver(S \ {l}, i))
calculateAutocorrelation(audioData) ==
    [lag \in 0..(ChunkLength - 1) |-> MaxOver(audioData.lobes \cup {<<0, 1000>>}, lag)]

\* Math.min(1, Math.max(0, rms / 0.1))
calculateSignalStrength(audioData) == Min2(10000, Max2(0, audioData.rms * 10))

\* the peaks findMultiplePeaks pushes (in increasing lag order), as a set of lags
peakLagsPlateau(autocorrelation, maxVal, startLag, last) ==
    { i \in startLag..last :
        /\ 10 * autocorrelation[i] > 4 * maxVal
        /\ autocorrelation[i] > autocorrelation[i - 1]
        /\ autocorrelation[i] >= autocorrelation[i + 1] }

peakLags(autocorrelation, maxVal, startLag, last) ==
    { i \in startLag..last :
        /\ 10 * autocorrelation[i] > 4 * maxVal
        /\ autocorrelation[i] > autocorrelation[i - 1]
        /\ autocorrelation[i] > autocorrelation[i + 1] }

\* peaks.sort((a, b) => b.strength - a.strength) on the pushed peaks: the sort
\* is stable, so the strongest come first and equal strengths stay in
\* increasing lag order
RECURSIVE sortedPeaks(_, _, _, _)
sortedPeaks(lags, autocorrelation, sampleRate, maxVal) ==
    IF lags = {} THEN <<>>
    ELSE LET i == CHOOSE i \in lags : \A o \in lags :
                     \/ autocorrelation[i] > autocorrelation[o]
                     \/ autocorrelation[i] = autocorrelation[o] /\ i <= o
         IN <<[index |-> i,
               frequency |-> RoundDiv(Hz(sampleRate), i),
               strength |-> Frac(autocorrelation[i], maxVal)]>>
            \o sortedPeaks(lags \ {i}, autocorrelation, sampleRate, maxVal)

\* Math.max over autocorrelation[first..last], starting from 0
maxValOver(autocorrelation, first, last) ==
    LET vals == { autocorrelation[i] : i \in first..last } \cup {0}
    IN CHOOSE m \in vals : \A v \in vals : m >= v

findMultiplePeaks(autocorrelation, sampleRate) ==
    LET length == Cardinality(DOMAIN autocorrelation)
        minLag == FloorDiv(sampleRate, MAX_FREQUENCY)
        maxLag == CeilDiv(sampleRate, MIN_FREQUENCY)
        startLag == Max2(5, minLag)
        maxVal == maxValOver(autocorrelation, startLag, Min2(maxLag, length) - 1)
    IN IF maxVal = 0 THEN <<>>
       ELSE sortedPeaks(peakLags(autocorrelation, maxVal, startLag,
                                 Min2(maxLag, length - 1) - 1),
                        autocorrelation, sampleRate, maxVal)

\* the score selectFundamentalFrequency gives a peak, in units of 1/10000
NearExpected(freq) ==
    \E k \in 1..Len(NOTE_FREQUENCIES) :
        20 * Abs(freq - NOTE_FREQUENCIES[k].freq) < NOTE_FREQUENCIES[k].freq
HarmonicOf(peak, peaks, divisor) ==
    /\ ~(peak.frequency < divisor * Hz(MIN_FREQUENCY))
    /\ \E o \in 1..Len(peaks) :
          /\ 20 * Abs(peaks[o].frequency * divisor - peak.frequency) < peak.frequency
          /\ 10 * peaks[o].strength > 6 * peak.strength
HarmonicDivisors(peak, peaks) == { d \in {2, 3, 4} : HarmonicOf(peak, peaks, d) }
\* what the divisor loop takes off the score: 'score -= 0.5' runs once for
\* every divisor that finds a matching lower peak (its 'break' leaves the
\* loop over the other peaks, not the loop over the divisors)
harmonicPenalty(peak, peaks) == 5000 * Cardinality(HarmonicDivisors(peak, peaks))
\* the score without the harmonic penalty
scoreBeforePenalty(peak, peaks) ==
    LET isLikelyHarmonic == HarmonicDivisors(peak, peaks) # {}
    IN peak.strength * 2
       + (IF NearExpected(peak.frequency) THEN 10000 ELSE 0)
       + RoundDiv((Hz(MAX_FREQUENCY) - peak.frequency) * 100, MAX_FREQUENCY * 10)
       + (IF ~isLikelyHarmonic /\ peak.frequency >= Hz(80) /\ peak.frequency <= Hz(115)
          THEN 5000 ELSE 0)
peakScore(peak, peaks) ==
    scoreBeforePenalty(peak, peaks) - harmonicPenalty(peak, peaks)

RECURSIVE selectLoop(_, _, _, _)
selectLoop(peaks, k, bestScore, fundamentalFrequency) ==
    IF k > Len(peaks) THEN fundamentalFrequency
    ELSE LET score == peakScore(peaks[k], peaks)
         IN IF score > bestScore
            THEN selectLoop(peaks, k + 1, score, Some(peaks[k].frequency))
            ELSE selectLoop(peaks, k + 1, bestScore, fundamentalFrequency)

selectFundamentalFrequencyHighBar(peaks, sampleRate) ==
    IF Len(peaks) = 0 THEN Null ELSE selectLoop(peaks, 1, 30000, Null)

selectFundamentalFrequency(peaks, sampleRate) ==
    IF Len(peaks) = 0 THEN Null ELSE selectLoop(peaks, 1, -10000, Null)

\* mutant: the selected fundamental is returned without the range test
detectPitchNoRangeCheck(audioData, sampleRate) ==
    IF calculateSignalStrength(audioData) < 100 THEN Null
    ELSE LET peaks == findMultiplePeaks(calculateAutocorrelation(audioData), sampleRate)
         IN IF Len(peaks) = 0 THEN Null
            ELSE selectFundamentalFrequency(peaks, sampleRate)

detectPitchOf(audioData, sampleRate) ==
    IF calculateSignalStrength(audioData) < 100 THEN Null
    ELSE LET peaks == findMultiplePeaks(calculateAutocorrelation(audioData), sampleRate)
             bestFrequency == selectFundamentalFrequency(peaks, sampleRate)
         IN IF Len(peaks) = 0 THEN Null
            ELSE IF bestFrequency = Null THEN Null
            ELSE IF Val(bestFrequency) >= Hz(MIN_FREQUENCY)
                    /\ Val(bestFrequency) <= Hz(MAX_FREQUENCY)
                 THEN bestFrequency
                 ELSE Null

\* detectPitch, with its results on the chunks of the model computed once
DetectPitchTable ==
    [audioData \in Chunks \cup SteadyChunks |-> detectPitchOf(audioData, SAMPLE_RATE)]
detectPitch(audioData, sampleRate) ==
    IF sampleRate = SAMPLE_RATE /\ audioData \in DOMAIN DetectPitchTable
    THEN DetectPitchTable[audioData]
    ELSE detectPitchOf(audioData, sampleRate)

\* ---------------------------------------------------------- chunk handling
\* the stability filter of processTunerAudioChunk: the frequency stored for a
\* new detection, given the previous one (Null if none)
\* mutant: the weights of the blend are swapped (30% new, 70% old)
smoothFrequencySwapped(detectedFrequency, prevDetectedFrequency) ==
    IF prevDetectedFrequency # Null
    THEN LET prev == Val(prevDetectedFrequency)
         IN IF 100 * Abs(detectedFrequency - prev) < 3 * prev
            THEN RoundDiv(3 * detectedFrequency + 7 * prev, 10)
            ELSE RoundDiv(9 * detectedFrequency + prev, 10)
    ELSE detectedFrequency

\* mutant: a change of 3% or more is damped as strongly as it should be let through
smoothFrequencyDamped(detectedFrequency, prevDetectedFrequency) ==
    IF prevDetectedFrequency # Null
    THEN LET prev == Val(prevDetectedFrequency)
         IN IF 100 * Abs(detectedFrequency - prev) < 3 * prev
            THEN RoundDiv(7 * detectedFrequency + 3 * prev, 10)
            ELSE RoundDiv(detectedFrequency + 9 * prev, 10)
    ELSE detectedFrequency

smoothFrequency(detectedFrequency, prevDetectedFrequency) ==
    IF prevDetectedFrequency # Null
    THEN LET prev == Val(prevDetectedFrequency)
         IN IF 100 * Abs(detectedFrequency - prev) < 3 * prev
            THEN RoundDiv(7 * detectedFrequency + 3 * prev, 10)
            ELSE RoundDiv(9 * detectedFrequency + prev, 10)
    ELSE detectedFrequency

\* mutant: a chunk without a detection clears the detection fields
processTunerAudioChunkClearing(audioData, tunerState, sampleRate) ==
    IF ~tunerState.isActive THEN tunerState
    ELSE LET prevDetectedFrequency == tunerState.detectedFrequency
             detectedFrequency == detectPitch(audioData, sampleRate)
         IN IF detectedFrequency = Null
            THEN [tunerState EXCEPT !.detectedNote = Null,
                                    !.detectedFrequency = Null,
                                    !.deviation = Null]
            ELSE LET smoothed == smoothFrequency(Val(detectedFrequency),
                                                 prevDetectedFrequency)
                 IN [tunerState EXCEPT
                        !.detectedFrequency = Some(smoothed),
                        !.detectedNote = Some(findClosestGuitarNote(smoothed)),
                        !.deviation = Some(calculateCentsDeviation(
                                          smoothed, getTargetFrequency(tunerState.targetNote)))]

\* processTunerAudioChunk that does not compute the deviation
processTunerAudioChunkNoDeviation(audioData, tunerState, sampleRate) ==
    IF ~tunerState.isActive THEN tunerState
    ELSE LET prevDetectedFrequency == tunerState.detectedFrequency
             detectedFrequency == detectPitch(audioData, sampleRate)
         IN IF detectedFrequency = Null
            THEN IF prevDetectedFrequency = Null
                 THEN [tunerState EXCEPT !.detectedNote = Null,
                                         !.detectedFrequency = Null,
                                         !.deviation = Null]
                 ELSE tunerState
            ELSE LET smoothed == smoothFrequency(Val(detectedFrequency),
                                                 prevDetectedFrequency)
                 IN [tunerState EXCEPT
                        !.detectedFrequency = Some(smoothed),
                        !.detectedNote = Some(findClosestGuitarNote(smoothed))]

\* processTunerAudioChunk without its test of isActive
processTunerAudioChunkAnyMode(audioData, tunerState, sampleRate) ==
    LET prevDetectedFrequency == tunerState.detectedFrequency
        detectedFrequency == detectPitch(audioData, sampleRate)
    IN IF detectedFrequency = Null
       THEN IF prevDetectedFrequency = Null
            THEN [tunerState EXCEPT !.detectedNote = Null,
                                    !.detectedFrequency = Null,
                                    !.deviation = Null]
            ELSE tunerState
       ELSE LET smoothed == smoothFrequency(Val(detectedFrequency),
                                            prevDetectedFrequency)
            IN [tunerState EXCEPT
                   !.detectedFrequency = Some(smoothed),
                   !.detectedNote = Some(findClosestGuitarNote(smoothed)),
                   !.deviation = Some(calculateCentsDeviation(
                                     smoothed, getTargetFrequency(tunerState.targetNote)))]

processTunerAudioChunk(audioData, tunerState, sampleRate) ==
    IF ~tunerState.isActive THEN tunerState
    ELSE LET prevDetectedFrequency == tunerState.detectedFrequency
             detectedFrequency == detectPitch(audioData, sampleRate)
         IN IF detectedFrequency = Null
            THEN IF prevDetectedFrequency = Null
                 THEN [tunerState EXCEPT !.detectedNote = Null,
                                         !.detectedFrequency = Null,
                                         !.deviation = Null]
                 ELSE tunerState
            ELSE LET smoothed == smoothFrequency(Val(detectedFrequency),
                                                 prevDetectedFrequency)
                 IN [tunerState EXCEPT
                        !.detectedFrequency = Some(smoothed),
                        !.detectedNote = Some(findClosestGuitarNote(smoothed)),
                        !.deviation = Some(calculateCentsDeviation(
                                          smoothed, getTargetFrequency(tunerState.targetNote)))]


\* ----------------------------------------------------------------- display
RECURSIVE Repeat(_, _)
\* String.prototype.repeat
Repeat(str, count) == IF count <= 0 THEN "" ELSE str \o Repeat(str, count - 1)

arrowCountUncapped(deviation) == CeilDiv(Abs(deviation), 10)

\* the number of markers: Math.min(Math.ceil(Math.abs(deviation) / 10), 5);
\* on the sharp side deviation is positive and Math.abs is left out
arrowCount(deviation) == Min2(CeilDiv(Abs(deviation), 10), 5)

\* formatTunerDisplay: the text of the tuner view. '!detectedNote' is true of
\* null and of the empty string.
formatTunerDisplay(tunerState) ==
    LET targetNote == tunerState.targetNote
        detectedNote == tunerState.detectedNote
        deviation == tunerState.deviation
        display == "TARGET NOTE: " \o targetNote
    IN  IF detectedNote = Null \/ Val(detectedNote) = "" \/ deviation = Null
        THEN display \o "\n\nNo pitch detected. Play a note."
                     \o "\n\nSay \"tune to [NOTE]\" or \"exit tuner mode\""
        ELSE (IF Abs(Val(deviation)) < 5
              THEN display \o "\n\n" \o Val(detectedNote)
                           \o ": ** IN TUNE! **"
              ELSE IF Val(deviation) < 0
              THEN LET arrows == Repeat("<", arrowCount(Val(deviation)))
                   IN  display \o "\n\n" \o Val(detectedNote)
                               \o ": TUNE UP " \o arrows \o "|"
              ELSE LET arrows == Repeat(">", arrowCount(Val(deviation)))
                   IN  display \o "\n\n" \o Val(detectedNote)
                               \o ": TUNE DOWN |" \o arrows)
             \o "\n\nSay \"tune to [NOTE]\" or \"exit\""

\* ------------------------------------------------------------------- songs
\* A ProcessedSong, as far as navigation goes: its title, the name and the
\* number of lines of every section, and the position.
Section(name, lines) == [name |-> name, lines |-> lines]
\* processSongData(DEFAULT_SONG): the twelve lines of 'Let It Be', the nine
\* longer than 42 columns broken in two by chunkLine
DefaultSong ==
    [title |-> "Let It Be",
     sections |-> <<Section("Intro", 2), Section("Verse 1", 8),
                    Section("Chorus", 3), Section("Verse 2", 8)>>,
     currentSectionIndex |-> 0,
     currentLineIndex |-> 0]
\* processSongData of what a chord lookup returns
FetchedSong ==
    [title |-> "Yesterday",
     sections |-> <<Section("Verse", 2), Section("Bridge", 1)>>,
     currentSectionIndex |-> 0,
     currentLineIndex |-> 0]

\* navigateNext that stops at the last line of the song
navigateNextNoWrap(song) ==
    IF song.currentLineIndex
           < song.sections[song.currentSectionIndex + 1].lines - 1
    THEN [song EXCEPT !.currentLineIndex = @ + 1]
    ELSE IF song.currentSectionIndex < Len(song.sections) - 1
    THEN [song EXCEPT !.currentSectionIndex = @ + 1, !.currentLineIndex = 0]
    ELSE song

navigateNext(song) ==
    IF song.currentLineIndex
           < song.sections[song.currentSectionIndex + 1].lines - 1
    THEN [song EXCEPT !.currentLineIndex = @ + 1]
    ELSE IF song.currentSectionIndex < Len(song.sections) - 1
    THEN [song EXCEPT !.currentSectionIndex = @ + 1, !.currentLineIndex = 0]
    ELSE [song EXCEPT !.currentSectionIndex = 0, !.currentLineIndex = 0]

\* navigatePrevious that stops at the first line of the song
navigatePreviousNoWrap(song) ==
    IF song.currentLineIndex > 0
    THEN [song EXCEPT !.currentLineIndex = @ - 1]
    ELSE IF song.currentSectionIndex > 0
    THEN [song EXCEPT !.currentSectionIndex = @ - 1,
                      !.currentLineIndex =
                          song.sections[song.currentSectionIndex].lines - 1]
    ELSE song

navigatePrevious(song) ==
    IF song.currentLineIndex > 0
    THEN [song EXCEPT !.currentLineIndex = @ - 1]
    ELSE IF song.currentSectionIndex > 0
    THEN [song EXCEPT !.currentSectionIndex = @ - 1,
                      !.currentLineIndex =
                          song.sections[song.currentSectionIndex].lines - 1]
    ELSE [song EXCEPT !.currentSectionIndex = Len(song.sections) - 1,
                      !.currentLineIndex =
                          song.sections[Len(song.sections)].lines - 1]

\* s.toLowerCase()
LowerChar(c) ==
    IF \E k \in 1..26 : UpperOf[k][2] = c
    THEN UpperOf[CHOOSE k \in 1..26 : UpperOf[k][2] = c][1]
    ELSE c
RECURSIVE ToLowerCase(_)
ToLowerCase(s) ==
    IF Len(s) = 0 THEN s
    ELSE LowerChar(CharAt(s, 1)) \o ToLowerCase(SubSeq(s, 2, Len(s)))

\* s.trim()
RECURSIVE TrimEnd(_)
TrimEnd(s) ==
    IF Len(s) > 0 /\ IsSpace(CharAt(s, Len(s)))
    THEN TrimEnd(SubSeq(s, 1, Len(s) - 1)) ELSE s
Trim(s) == TrimEnd(SubSeq(s, SkipSpaces(s, 1), Len(s)))

\* jumpToSection that keeps the line index
jumpToSectionKeepingLine(song, sectionName) ==
    LET targetName == ToLowerCase(sectionName)
        found == {k \in 1..Len(song.sections) :
                     Includes(ToLowerCase(song.sections[k].name), targetName)}
    IN  IF found = {} THEN song
        ELSE [song EXCEPT
                 !.currentSectionIndex =
                     (CHOOSE k \in found : \A j \in found : k <= j) - 1]

\* jumpToSection: to line 0 of the first section whose name holds sectionName,
\* whatever the case; the song as it is if there is none
jumpToSection(song, sectionName) ==
    LET targetName == ToLowerCase(sectionName)
        found == {k \in 1..Len(song.sections) :
                     Includes(ToLowerCase(song.sections[k].name), targetName)}
    IN  IF found = {} THEN song
        ELSE [song EXCEPT
                 !.currentSectionIndex =
                     (CHOOSE k \in found : \A j \in found : k <= j) - 1,
                 !.currentLineIndex = 0]

\* getNavigationInfo: '(current/total)' over the lines of the whole song
RECURSIVE LinesBefore(_, _)
LinesBefore(song, k) ==
    IF k = 0 THEN 0 ELSE song.sections[k].lines + LinesBefore(song, k - 1)
currentLineOverall(song) ==
    LinesBefore(song, song.currentSectionIndex) + song.currentLineIndex + 1
totalLinesInSong(song) == LinesBefore(song, Len(song.sections))
getNavigationInfo(song) ==
    "(" \o ToString(currentLineOverall(song))
        \o "/" \o ToString(totalLinesInSong(song)) \o ")"

\* ----------------------------------------------------------- line breaking
\* the default maxLength of chunkLine
DisplayWidth == 42
\* A ChordLyricLine: chords, their columns (from 0) and the lyrics (or null).
Line(chords, chord_positions, lyrics) ==
    [chords |-> chords, chord_positions |-> chord_positions,
     lyrics |-> lyrics]
\* line.lyrics is truthy: neither null nor ''
HasLyrics(line) == line.lyrics # Null /\ Val(line.lyrics) # ""
\* text.substring(from) and text.substring(0, to), indices from 0
SubstringFrom(text, from) == SubSeq(text, Min2(from, Len(text)) + 1, Len(text))
SubstringTo(text, to) == SubSeq(text, 1, Min2(to, Len(text)))
\* where the last chord ends (0 without chords)
maxChordPos(line) ==
    IF Len(line.chords) > 0 /\ Len(line.chord_positions) > 0
    THEN LET lastIdx == Len(line.chord_positions)
         IN  line.chord_positions[lastIdx] + Len(line.chords[lastIdx])
    ELSE 0

\* findWordBreakPoint: the last space at an index in 1..maxLength, else
\* maxLength
findWordBreakPoint(text, maxLength) ==
    IF Len(text) <= maxLength THEN Len(text)
    ELSE LET spaces == {breakPoint \in 1..maxLength :
                           CharAt(text, breakPoint + 1) = " "}
         IN  IF spaces # {}
             THEN CHOOSE breakPoint \in spaces :
                      \A other \in spaces : other <= breakPoint
             ELSE maxLength

RECURSIVE splitLoop(_, _, _, _, _, _, _)
\* the loop of splitInstrumentalLine from chord i on
splitLoop(line, maxLength, i, chunks, currentChunkChords, currentChunkPositions, currentLength) ==
    IF i > Len(line.chords)
    THEN IF Len(currentChunkChords) > 0
         THEN Append(chunks, Line(currentChunkChords, currentChunkPositions,
                                  Null))
         ELSE chunks
    ELSE LET chord == line.chords[i]
             originalPos == line.chord_positions[i]
             pos == IF Len(currentChunkChords) = 0 THEN 0
                    ELSE originalPos - currentLength
         IN  IF pos + Len(chord) > maxLength /\ Len(currentChunkChords) > 0
             THEN splitLoop(line, maxLength, i + 1,
                      Append(chunks, Line(currentChunkChords,
                                          currentChunkPositions, Null)),
                      <<chord>>, <<0>>, originalPos)
             ELSE splitLoop(line, maxLength, i + 1, chunks,
                      Append(currentChunkChords, chord),
                      Append(currentChunkPositions, pos),
                      IF Len(currentChunkChords) = 0 THEN originalPos
                      ELSE currentLength)

splitInstrumentalLine(line, maxLength) ==
    IF maxChordPos(line) <= maxLength THEN <<line>>
    ELSE splitLoop(line, maxLength, 1, <<>>, <<>>, <<>>, 0)

RECURSIVE firstChunkCount(_, _, _)
\* how many chords the first loop of chunkLine takes from chord i on: those
\* before the first chord at or after the break point
firstChunkCount(line, lyricBreakPoint, i) ==
    IF i > Len(line.chords) \/ line.chord_positions[i] >= lyricBreakPoint
    THEN 0
    ELSE 1 + firstChunkCount(line, lyricBreakPoint, i + 1)

RECURSIVE remainingFromAfter(_, _, _)
\* the second loop of chunkLine taking only the chords after the break point
remainingFromAfter(line, lyricBreakPoint, i) ==
    IF i > Len(line.chords) THEN Line(<<>>, <<>>, Null)
    ELSE LET rest == remainingFromAfter(line, lyricBreakPoint, i + 1)
             pos == line.chord_positions[i]
         IN  IF pos > lyricBreakPoint
             THEN Line(<<line.chords[i]>> \o rest.chords,
                       <<pos - lyricBreakPoint>> \o rest.chord_positions,
                       Null)
             ELSE rest

RECURSIVE remainingFrom(_, _, _)
\* the second loop of chunkLine from chord i on: the chords at or after the
\* break point, their columns counted from it
remainingFrom(line, lyricBreakPoint, i) ==
    IF i > Len(line.chords) THEN Line(<<>>, <<>>, Null)
    ELSE LET rest == remainingFrom(line, lyricBreakPoint, i + 1)
             pos == line.chord_positions[i]
         IN  IF pos >= lyricBreakPoint
             THEN Line(<<line.chords[i]>> \o rest.chords,
                       <<pos - lyricBreakPoint>> \o rest.chord_positions,
                       Null)
             ELSE rest

\* chunkLine on its lyric path, the break point found
breakLyricLine(line, lyricBreakPoint) ==
    LET lyrics == Val(line.lyrics)
        firstCount == firstChunkCount(line, lyricBreakPoint, 1)
        remaining == remainingFrom(line, lyricBreakPoint, 1)
        first == Line(SubSeq(line.chords, 1, firstCount),
                      SubSeq(line.chord_positions, 1, firstCount),
                      Some(SubstringTo(lyrics, lyricBreakPoint)))
    IN  IF lyricBreakPoint < Len(lyrics) \/ firstCount < Len(line.chords)
        THEN <<first,
               Line(remaining.chords, remaining.chord_positions,
                    Some(Trim(SubstringFrom(lyrics, lyricBreakPoint))))>>
        ELSE <<first>>

chunkLine(line, maxLength) ==
    LET totalLength ==
            Max2(maxChordPos(line),
                 IF HasLyrics(line) THEN Len(Val(line.lyrics)) ELSE 0)
    IN  IF totalLength <= maxLength THEN <<line>>
        ELSE IF ~HasLyrics(line) THEN splitInstrumentalLine(line, maxLength)
        ELSE breakLyricLine(line,
                 IF Len(Val(line.lyrics)) > maxLength
                 THEN findWordBreakPoint(Val(line.lyrics), maxLength)
                 ELSE maxLength)

\* a line of a ScraperResponse
RawLine(section, chords, chord_positions, lyrics) ==
    [section |-> section, chords |-> chords,
     chord_positions |-> chord_positions, lyrics |-> lyrics]
\* a ScraperResponse, as far as processSongData reads it
RawSong(song_title, lines) == [song_title |-> song_title, lines |-> lines]
\* DEFAULT_SONG
DEFAULT_SONG ==
    RawSong("Let It Be", <<
    RawLine("Intro", <<"C", "G", "Am", "Fmaj7", "F6">>,
            <<0, 8, 16, 24, 32>>,
            Null),
    RawLine("Intro", <<"C", "G", "F", "C/E", "Dm7", "C">>,
            <<0, 8, 16, 24, 32, 40>>,
            Null),
    RawLine("Verse 1", <<"C", "G", "Am", "Am/G", "Fmaj7", "F6">>,
            <<0, 17, 30, 40, 48, 56>>,
            Some("When I find myself in times of trouble, Mother Mary comes to me")),
    RawLine("Verse 1", <<"C", "G", "F", "C/E", "Dm7", "C">>,
            <<0, 13, 20, 28, 36, 44>>,
            Some("Speaking words of wisdom, let it be")),
    RawLine("Verse 1", <<"C", "G", "Am", "Am/G", "Fmaj7", "F6">>,
            <<0, 13, 28, 40, 54, 62>>,
            Some("And in my hour of darkness, she is standing right in front of me")),
    RawLine("Verse 1", <<"C", "G", "F", "C/E", "Dm7", "C">>,
            <<0, 13, 20, 28, 36, 44>>,
            Some("Speaking words of wisdom, let it be")),
    RawLine("Chorus", <<"Am", "G", "F", "C">>,
            <<0, 12, 24, 36>>,
            Some("Let it be, let it be, let it be, let it be")),
    RawLine("Chorus", <<"C", "G", "F", "C/E", "Dm7", "C">>,
            <<0, 13, 23, 32, 40, 48>>,
            Some("Whisper words of wisdom, let it be")),
    RawLine("Verse 2", <<"C", "G", "Am", "Am/G", "Fmaj7", "F6">>,
            <<0, 13, 28, 40, 54, 62>>,
            Some("And when the broken hearted people, living in the world agree")),
    RawLine("Verse 2", <<"C", "G", "F", "C/E", "Dm7", "C">>,
            <<0, 13, 20, 28, 36, 44>>,
            Some("There will be an answer, let it be")),
    RawLine("Verse 2", <<"C", "G", "Am", "Am/G", "Fmaj7", "F6">>,
            <<0, 13, 28, 40, 54, 62>>,
            Some("For though they may be parted, there is still a chance that they will see")),
    RawLine("Verse 2", <<"C", "G", "F", "C/E", "Dm7", "C">>,
            <<0, 13, 20, 28, 36, 44>>,
            Some("There will be an answer, let it be")) >>)
\* the lines of DEFAULT_SONG
DefaultLines ==
    {Line(DEFAULT_SONG.lines[k].chords, DEFAULT_SONG.lines[k].chord_positions,
          DEFAULT_SONG.lines[k].lyrics) : k \in 1..Len(DEFAULT_SONG.lines)}

\* processSongData, one line on: the line's chunks are added to the last
\* section if it has the line's section name, else to a new section
addLine(sections, line) ==
    LET chunks == Len(chunkLine(Line(line.chords, line.chord_positions,
                                     line.lyrics), DisplayWidth))
    IN  IF sections # <<>> /\ sections[Len(sections)].name = line.section
        THEN [sections EXCEPT ![Len(sections)].lines = @ + chunks]
        ELSE Append(sections, Section(line.section, chunks))
RECURSIVE groupLoop(_, _, _)
\* the loops of processSongData from line i on
groupLoop(lines, i, sections) ==
    IF i > Len(lines) THEN sections
    ELSE groupLoop(lines, i + 1, addLine(sections, lines[i]))
processSongData(rawData) ==
    [title |-> rawData.song_title,
     sections |-> groupLoop(rawData.lines, 1, <<>>),
     currentSectionIndex |-> 0,
     currentLineIndex |-> 0]

\* ---------------------------------------------------------- voice commands
\* The two patterns of onTranscription,
\*   /(?:^|\.\s+|\!\s+|\?\s+)\b(?:play)(?:\s+song)?\s+(.+?)(?:\.|\?|!|$)/i
\*   /(?:^|\.\s+|\!\s+|\?\s+)\b(?:go\s+to)(?:\s+the)?\s+(.+?)(?:\.|\?|!|$)/i
IsSentenceEnd(c) == c \in {".", "!", "?"}
\* where the keyword may start: at the start of the text, or after a full
\* stop, '!' or '?' and white space
KeywordStarts(s) ==
    {1} \cup {SkipSpaces(s, q + 1) : q \in
                 {q \in 1..Len(s) : IsSentenceEnd(CharAt(s, q))
                                        /\ SpacesAt(s, q + 1)}}
\* \s+(.+?)(?:\.|\?|!|$) from index k: Null, or the text of the group
RECURSIVE GroupEnd(_, _)
GroupEnd(s, e) ==
    IF e + 1 > Len(s) \/ IsSentenceEnd(CharAt(s, e + 1)) THEN e
    ELSE GroupEnd(s, e + 1)
RestAt(s, k) ==
    IF ~SpacesAt(s, k) THEN Null
    ELSE LET j == SkipSpaces(s, k)
         IN  IF j <= Len(s) THEN Some(SubSeq(s, j, GroupEnd(s, j)))
             ELSE IF k < Len(s) THEN Some(CharAt(s, Len(s)))
             ELSE Null
\* (?:\s+word)?\s+(.+?)(?:\.|\?|!|$) from index k
OptionalWordAt(s, k, word) ==
    LET j == SkipSpaces(s, k)
        with == IF SpacesAt(s, k) /\ LiteralAt(s, j, word)
                THEN RestAt(s, j + Len(word)) ELSE Null
    IN  IF with # Null THEN with ELSE RestAt(s, k)
\* the first index after 'play' / 'go to' standing at index i (0 if it does not)
PlayAt(s, i) == IF LiteralAt(s, i, "play") THEN i + 4 ELSE 0
GoToAt(s, i) ==
    IF LiteralAt(s, i, "go") /\ SpacesAt(s, i + 2)
           /\ LiteralAt(s, SkipSpaces(s, i + 2), "to")
    THEN SkipSpaces(s, i + 2) + 2 ELSE 0
\* transcription.match(...): Null, or group 1 of the leftmost match
playCommandMatch(transcription) ==
    LET matches == {i \in KeywordStarts(transcription) :
                       /\ PlayAt(transcription, i) > 0
                       /\ OptionalWordAt(transcription,
                              PlayAt(transcription, i), "song") # Null}
    IN  IF matches = {} THEN Null
        ELSE OptionalWordAt(transcription,
                 PlayAt(transcription,
                        CHOOSE i \in matches : \A j \in matches : i <= j),
                 "song")
sectionCommandMatch(transcription) ==
    LET matches == {i \in KeywordStarts(transcription) :
                       /\ GoToAt(transcription, i) > 0
                       /\ OptionalWordAt(transcription,
                              GoToAt(transcription, i), "the") # Null}
    IN  IF matches = {} THEN Null
        ELSE OptionalWordAt(transcription,
                 GoToAt(transcription,
                        CHOOSE i \in matches : \A j \in matches : i <= j),
                 "the")

\* ---------------------------------------------------------------- the app
\* The fields of the one AugmentedChordsApp instance, the timers and chord
\* lookups it has pending, and what each session's glasses show.
\*   app.tunerState, app.isShowingMessage, app.currentSong,
\*   app.lastTunerUpdateTime: the fields; app.timers: the setTimeout
\*   callbacks not yet run, in the order they were set; app.lookups: the
\*   fetchSongChords calls still waiting for the script; app.display: per
\*   session, the last text put on the glasses.
showTextWall(app, session, text) == [app EXCEPT !.display[session] = text]
setTimeout(app, callback, session, delay, now) ==
    [app EXCEPT !.timers =
        Append(@, [callback |-> callback, session |-> session,
                   due |-> now + delay])]

updateTunerDisplay(app, session, tunerState) ==
    showTextWall(app, session, formatTunerDisplay(tunerState))

\* updateChordDisplay: the tuner view in tuner mode, a hint without a song,
\* else the song's header and the current position (the chord and lyric
\* lines themselves are left out)
updateChordDisplay(app, session) ==
    IF app.tunerState.isActive
    THEN updateTunerDisplay(app, session, app.tunerState)
    ELSE IF app.currentSong = Null
    THEN showTextWall(app, session,
             "No song loaded. Say 'play [song name]' to load a song.")
    ELSE LET song == Val(app.currentSong)
         IN  showTextWall(app, session,
                 song.title \o "\n["
                     \o song.sections[song.currentSectionIndex + 1].name
                     \o "] " \o getNavigationInfo(song))

\* the callbacks given to setTimeout
runTimer(app, timer, now) ==
    LET session == timer.session
        shown == [app EXCEPT !.isShowingMessage = FALSE]
    IN  CASE timer.callback = "welcome" ->
                 setTimeout(
                     showTextWall(app, session,
                         "AugmentedChords App Ready!\nSay 'play [song name]' to load a song"),
                     "start", session, 2000, now)
          [] timer.callback = "start" ->
                 updateChordDisplay(
                     [app EXCEPT !.currentSong = Some(DefaultSong),
                                 !.isShowingMessage = FALSE], session)
          [] timer.callback = "tunerView" ->
                 updateTunerDisplay(shown, session, shown.tunerState)
          [] timer.callback \in {"chordView", "songView"} ->
                 updateChordDisplay(shown, session)
          [] timer.callback = "chordViewIfSong" ->
                 IF shown.currentSong # Null
                 THEN updateChordDisplay(shown, session) ELSE shown

\* onSession: the key listener is registered (see keyPress), input is blocked
\* and the welcome timer set
onSession(app, session, now) ==
    setTimeout([app EXCEPT !.isShowingMessage = TRUE],
               "welcome", session, 3500, now)

\* onAudioChunk with the threshold of 500 ms in both branches
onAudioChunkOneThreshold(app, session, audioData, now) ==
    LET actualSampleRate == 16000
        updatedState ==
            processTunerAudioChunk(audioData, app.tunerState, actualSampleRate)
        updated == [app EXCEPT !.tunerState = updatedState]
    IN  IF now - app.lastTunerUpdateTime > 500
        THEN updateTunerDisplay(
                 [updated EXCEPT !.lastTunerUpdateTime = now],
                 session, updatedState)
        ELSE updated

\* the onAudioChunk handler, run when its guard holds
onAudioChunk(app, session, audioData, now) ==
    LET actualSampleRate == 16000
        updatedState ==
            processTunerAudioChunk(audioData, app.tunerState, actualSampleRate)
        updated == [app EXCEPT !.tunerState = updatedState]
    IN  IF updated.tunerState.detectedFrequency # Null
        THEN IF now - app.lastTunerUpdateTime > 500
             THEN updateTunerDisplay(
                      [updated EXCEPT !.lastTunerUpdateTime = now],
                      session, updatedState)
             ELSE updated
        ELSE IF now - app.lastTunerUpdateTime > 1000
        THEN updateTunerDisplay(
                 [updated EXCEPT !.lastTunerUpdateTime = now],
                 session, updatedState)
        ELSE updated

\* the onAudioChunk handler with its test of the mode
audioChunkHandler(app, session, audioData, now) ==
    IF app.tunerState.isActive /\ ~app.isShowingMessage
    THEN onAudioChunk(app, session, audioData, now)
    ELSE app

\* what the handlers read off a transcription, computed once per text
transcriptionOf(text) ==
    LET transcription == ToLowerCase(text)
    IN  [transcription |-> transcription,
         play |-> playCommandMatch(transcription),
         help |-> Includes(transcription, "help")
                      \/ Includes(transcription, "instructions"),
         section |-> sectionCommandMatch(transcription)]
\* what is said: tuner commands, song commands and other speech
Texts == {
    "Tune guitar",
    "Exit tuner mode",
    "Tune to A",
    "Play Yesterday",
    "Help",
    "Go to the chorus",
    "Go to bridge",
    "Next" }
TranscriptionTable == [text \in Texts |-> transcriptionOf(text)]

heardAs(text) ==
    IF text \in DOMAIN TranscriptionTable
    THEN TranscriptionTable[text] ELSE transcriptionOf(text)
\* onTranscription once handleTunerCommand has returned: handled is the app
\* with the returned tunerState (of the two texts of the help view, the top
\* one is kept)
afterTunerCommand(handled, oldTunerActive, heard, session, now) ==
    LET blocked == [handled EXCEPT !.isShowingMessage = TRUE]
    IN  IF ~oldTunerActive /\ handled.tunerState.isActive
        THEN setTimeout(
                 showTextWall(blocked, session,
                     "Entering tuner mode...\nDefault target: E"),
                 "tunerView", session, 1500, now)
        ELSE IF oldTunerActive /\ ~handled.tunerState.isActive
        THEN setTimeout(
                 showTextWall(blocked, session,
                     "Exiting tuner mode...\nReturning to chord display"),
                 "chordView", session, 1500, now)
        ELSE IF handled.tunerState.isActive
        THEN updateTunerDisplay(handled, session, handled.tunerState)
        ELSE IF heard.play # Null
        THEN LET songName == Trim(Val(heard.play))
                 searching ==
                     showTextWall(blocked, session,
                         "Searching for chords for \"" \o songName
                             \o "\"...\nThis may take a minute")
             IN  [searching EXCEPT !.lookups =
                     Append(@, [session |-> session, songName |-> songName])]
        ELSE IF heard.help
        THEN setTimeout(
                 showTextWall(blocked, session,
                     "Voice Commands:\n- 'play [song name]'\n- 'go to [section name]'\n- 'tuner mode'\n- 'help'"),
                 "chordView", session, 5000, now)
        ELSE IF heard.section # Null /\ handled.currentSong # Null
        THEN LET sectionName == Trim(Val(heard.section))
                 currentSong == Val(handled.currentSong)
                 updatedSong == jumpToSection(currentSong, sectionName)
             IN  IF updatedSong.currentSectionIndex
                        # currentSong.currentSectionIndex
                 THEN setTimeout(
                          showTextWall(
                              [handled EXCEPT !.currentSong = Some(updatedSong)],
                              session, "Jumping to " \o sectionName \o "..."),
                          "chordView", session, 1500, now)
                 ELSE setTimeout(
                          showTextWall(handled, session,
                              "Section \"" \o sectionName \o "\" not found"),
                          "chordView", session, 2000, now)
        ELSE handled

\* the onTranscription handler for a final transcription
onTranscription(app, session, text, now) ==
    afterTunerCommand(
        [app EXCEPT !.tunerState =
            handleTunerCommand(heardAs(text).transcription, @)],
        app.tunerState.isActive, heardAs(text), session, now)

\* fetchSongChords that sets no timer after a failed lookup
lookupSettlesNoTimer(app, lookup, outcome, now) ==
    LET session == lookup.session
        songName == lookup.songName
    IN  CASE outcome = "found" ->
                 setTimeout(
                     showTextWall(
                         [app EXCEPT !.currentSong = Some(FetchedSong)],
                         session,
                         "Found chords for \"" \o FetchedSong.title
                             \o "\"\nLoading..."),
                     "songView", session, 2000, now)
          [] outcome = "none" ->
                 setTimeout(
                     showTextWall(app, session,
                         "No chord data found for \"" \o songName
                             \o "\"\nTry another song name"),
                     "chordViewIfSong", session, 3000, now)
          [] outcome = "error" ->
                 showTextWall(app, session,
                     "Error looking up chords for \"" \o songName
                         \o "\"\nPlease try again")

\* fetchSongChords once the script has ended: with chords, without, or not
\* at all (the song's key is left out of the texts, as it is from the songs)
lookupSettles(app, lookup, outcome, now) ==
    LET session == lookup.session
        songName == lookup.songName
    IN  CASE outcome = "found" ->
                 setTimeout(
                     showTextWall(
                         [app EXCEPT !.currentSong = Some(FetchedSong)],
                         session,
                         "Found chords for \"" \o FetchedSong.title
                             \o "\"\nLoading..."),
                     "songView", session, 2000, now)
          [] outcome = "none" ->
                 setTimeout(
                     showTextWall(app, session,
                         "No chord data found for \"" \o songName
                             \o "\"\nTry another song name"),
                     "chordViewIfSong", session, 3000, now)
          [] outcome = "error" ->
                 setTimeout(
                     showTextWall(app, session,
                         "Error looking up chords for \"" \o songName
                             \o "\"\nPlease try again"),
                     "chordViewIfSong", session, 3000, now)

\* the listener setupInputListener puts on process.stdin for one session
keyListener(app, session, keyPress, now) ==
    IF app.isShowingMessage THEN app
    ELSE IF app.tunerState.isActive
    THEN IF keyPress = "Escape"
         THEN setTimeout(
                  showTextWall(
                      [app EXCEPT !.tunerState.isActive = FALSE,
                                  !.isShowingMessage = TRUE],
                      session,
                      "Exiting tuner mode...\nReturning to chord display"),
                  "chordView", session, 1500, now)
         ELSE app
    ELSE IF keyPress \in {"Right", "Left"} /\ app.currentSong # Null
    THEN updateChordDisplay(
             [app EXCEPT !.currentSong =
                 Some(IF keyPress = "Right"
                      THEN navigateNext(Val(app.currentSong))
                      ELSE navigatePrevious(Val(app.currentSong)))],
             session)
    ELSE app
\* a key press reaches the listeners of all sessions, in the order the
\* sessions were opened
RECURSIVE keyPressed(_, _, _, _)
keyPressed(app, listeners, keyPress, now) ==
    IF listeners = <<>> THEN app
    ELSE keyPressed(keyListener(app, Head(listeners), keyPress, now),
                    Tail(listeners), keyPress, now)

\* ------------------------------------------------------------- the machine
VARIABLES
    tunerState,   \* the TunerState the caller holds: the last call's result
    argState,     \* the tunerState argument of the last call
    call,         \* the last call: its function and its other arguments
    chunkCount,   \* processTunerAudioChunk calls so far
    steadyAudio,  \* the chunk a steady-tone run repeats (NoAudio: none yet)
    steadyCount,  \* how many times it has been processed
    fnCall,       \* a call of one of the pure functions: its name and arguments
    fnResult,     \* what that call returned (Null: not yet called)
    \* the app instance around the engine: tunerState above is its field
    \* this.tunerState
    sessions,             \* the sessions opened, in the order of onSession
    isShowingMessage,     \* this.isShowingMessage
    currentSong,          \* this.currentSong (Null before the first song)
    lastTunerUpdateTime,  \* this.lastTunerUpdateTime
    now,                  \* Date.now(), in milliseconds
    timers,               \* the setTimeout callbacks not yet run
    lookups,              \* the fetchSongChords calls not yet settled
    display,              \* per session, the text on the glasses
    event,                \* the last handler run and the session it ran for
    eventCount,           \* transcriptions and key presses so far
    tickCount             \* pauses between events so far

engineVars ==
    <<tunerState, argState, call, chunkCount, steadyAudio, steadyCount>>
fnVars == <<fnCall, fnResult>>
appVars ==
    <<sessions, isShowingMessage, currentSong, lastTunerUpdateTime, now,
      timers, lookups, display, event, eventCount, tickCount>>
vars == <<engineVars, fnVars, appVars>>

NoCall == [fn |-> "none"]

\* the sessions that connect to the one app instance
Sessions == {1, 2}
\* Date.now() when the app is constructed; the fields are initialized with
\* lastTunerUpdateTime = 0, long before
Epoch == 100000

\* the app as its constructor and field initializers leave it
Constructed ==
    /\ sessions = <<>>
    /\ isShowingMessage = FALSE
    /\ currentSong = Null
    /\ lastTunerUpdateTime = 0
    /\ now = Epoch
    /\ timers = <<>>
    /\ lookups = <<>>
    /\ display = [session \in Sessions |-> ""]
    /\ event = [handler |-> "constructor", session |-> 0]
    /\ eventCount = 0
    /\ tickCount = 0

Init ==
    /\ tunerState = initTunerState
    /\ argState = initTunerState
    /\ call = [fn |-> "initTunerState", command |-> "", audioData |-> NoAudio]
    /\ chunkCount = 0
    /\ steadyAudio = NoAudio
    /\ steadyCount = 0
    /\ fnCall = NoCall
    /\ fnResult = Null
    /\ Constructed

\* a call handleTunerCommand(command, tunerState); the caller keeps the result
DoCommand(command) ==
    /\ tunerState' = handleTunerCommand(command, tunerState)
    /\ argState' = tunerState
    /\ call' = [fn |-> "handleTunerCommand", command |-> command,
                audioData |-> NoAudio]
    /\ UNCHANGED chunkCount

\* a call processTunerAudioChunk(audioData, tunerState, 16000); the caller
\* keeps the result
DoChunk(audioData) ==
    /\ tunerState' = processTunerAudioChunk(audioData, tunerState, SAMPLE_RATE)
    /\ argState' = tunerState
    /\ call' = [fn |-> "processTunerAudioChunk", command |-> "",
                audioData |-> audioData]
    /\ chunkCount' = chunkCount + 1

Command ==
    /\ \E command \in Commands : DoCommand(command)
    /\ UNCHANGED <<steadyAudio, steadyCount, fnVars, appVars>>

AudioChunk ==
    /\ chunkCount < MaxChunks
    /\ \E audioData \in Chunks : DoChunk(audioData)
    /\ UNCHANGED <<steadyAudio, steadyCount, fnVars, appVars>>

\* the engine under any sequence of calls of its two state-changing functions
Next == Command \/ AudioChunk

Spec == Init /\ [][Next]_vars

\* The target note under any of TargetCommands and up to MaxTargetChunks
\* chunks measured against it.
MaxTargetChunks == 1

TargetCommand ==
    /\ \E command \in TargetCommands : DoCommand(command)
    /\ UNCHANGED <<steadyAudio, steadyCount, fnVars, appVars>>

TargetChunk ==
    /\ chunkCount < MaxTargetChunks
    /\ \E audioData \in Chunks : DoChunk(audioData)
    /\ UNCHANGED <<steadyAudio, steadyCount, fnVars, appVars>>

NextTarget == TargetCommand \/ TargetChunk

SpecTarget == Init /\ [][NextTarget]_vars

\* A steady-tone run: enter tuner mode, process up to MaxWarmup chunks of any
\* tones (they leave some previous detectedFrequency), then the same tone
\* again and again.
SteadyEnter ==
    /\ ~tunerState.isActive
    /\ DoCommand("tune guitar")
    /\ UNCHANGED <<steadyAudio, steadyCount, fnVars, appVars>>

SteadyWarmup ==
    /\ tunerState.isActive
    /\ steadyAudio = NoAudio
    /\ chunkCount < MaxWarmup
    /\ \E audioData \in SteadyChunks : DoChunk(audioData)
    /\ UNCHANGED <<steadyAudio, steadyCount, fnVars, appVars>>

SteadyBegin ==
    /\ tunerState.detectedFrequency # Null
    /\ steadyAudio = NoAudio
    /\ \E audioData \in SteadyChunks :
        /\ steadyAudio' = audioData
        /\ DoChunk(audioData)
    /\ steadyCount' = 1
    /\ UNCHANGED <<fnVars, appVars>>

SteadyChunk ==
    /\ steadyAudio # NoAudio
    /\ steadyCount < MaxSteadyChunks
    /\ DoChunk(steadyAudio)
    /\ steadyCount' = steadyCount + 1
    /\ UNCHANGED <<steadyAudio, fnVars, appVars>>

SteadyNext == SteadyEnter \/ SteadyWarmup \/ SteadyBegin \/ SteadyChunk

SpecSteady == Init /\ [][SteadyNext]_vars

\* The pure functions, each called once on an argument drawn from a bounded
\* set: fnCall holds the call, fnResult what it returned.
MaxDeviation == 60
DisplayStates ==
    [isActive : {TRUE},
     targetNote : {"E", "G#", "BB"},
     detectedNote : {Null, Some(""), Some("E"), Some("A")},
     detectedFrequency : {Null},
     deviation : {Null} \cup {Some(d) : d \in -MaxDeviation..MaxDeviation}]

\* note arguments: the bare letters, texts the 'tune to' command can store
\* and texts it cannot
TargetNotes ==
    {"E", "A", "D", "G", "B", "C", "F", "G#", "BB", "A#", "EB",
     "", "E2", "E4", "D3", "E22", "e", "2"}
\* frequencies in millihertz: MinGridHz..MaxGridHz in quarters of a hertz,
\* the values the spec names and those halfway between two strings
MinGridHz == 60
MaxGridHz == 360
GridFrequencies ==
    {Hz(MinGridHz) + 250 * k : k \in 0..(4 * (MaxGridHz - MinGridHz))}
        \cup {Hz(83), Hz(150)}
        \cup {(NOTE_FREQUENCIES[k].freq + NOTE_FREQUENCIES[k + 1].freq) \div 2 :
                  k \in 1..(Len(NOTE_FREQUENCIES) - 1)}
\* frequencies from 16 Hz (below C0) to 1220 Hz, across 75 half steps
MaxLowSteps == 400
MaxHighSteps == 200
NoteFrequencies ==
    {Hz(16) + 500 * k : k \in 0..MaxLowSteps}
        \cup {Hz(220) + Hz(5) * k : k \in 0..MaxHighSteps}
        \cup {82410}
\* a frequency one half step above / below (2^(1/12) = 1.0595, 2^(-1/12) = 0.9439)
HalfStepAbove(f) == ((f \div 10) * 10595) \div 1000
HalfStepBelow(f) == ((f \div 10) * 9439) \div 1000
CentsTargets == {NOTE_FREQUENCIES[k].freq : k \in 1..6} \cup {Hz(440)}
CentsPairs ==
    {<<d, t>> : d \in {Hz(h) : h \in MIN_FREQUENCY..MAX_FREQUENCY},
                t \in CentsTargets}
        \cup {<<t + e, t>> : t \in CentsTargets, e \in {-1, 0, 1}}
        \cup {<<HalfStepAbove(t), t>> : t \in CentsTargets}
        \cup {<<HalfStepBelow(t), t>> : t \in CentsTargets}
        \cup {<<466160, Hz(440)>>, <<415300, Hz(440)>>}

FunctionCalls ==
    {[fn |-> "formatTunerDisplay", tunerState |-> t] : t \in DisplayStates}
        \cup {[fn |-> "getTargetFrequency", note |-> n] : n \in TargetNotes}
        \cup {[fn |-> "findClosestGuitarNote", frequency |-> f] :
                  f \in GridFrequencies}
        \cup {[fn |-> "frequencyToNote", frequency |-> f] :
                  f \in NoteFrequencies}
        \cup {[fn |-> "calculateCentsDeviation", detectedFreq |-> p[1],
               targetFreq |-> p[2]] : p \in CentsPairs}

InitFunctions ==
    /\ tunerState = initTunerState
    /\ argState = initTunerState
    /\ call = [fn |-> "initTunerState", command |-> "", audioData |-> NoAudio]
    /\ chunkCount = 0
    /\ steadyAudio = NoAudio
    /\ steadyCount = 0
    /\ fnCall \in FunctionCalls
    /\ fnResult = Null
    /\ Constructed

Returns(fn, result) ==
    /\ fnCall.fn = fn
    /\ fnResult = Null
    /\ fnResult' = Some(result)
    /\ UNCHANGED <<engineVars, fnCall, appVars>>

CallFormatTunerDisplay ==
    /\ fnCall.fn = "formatTunerDisplay"
    /\ Returns("formatTunerDisplay", formatTunerDisplay(fnCall.tunerState))

CallGetTargetFrequency ==
    /\ fnCall.fn = "getTargetFrequency"
    /\ Returns("getTargetFrequency", getTargetFrequency(fnCall.note))

CallFindClosestGuitarNote ==
    /\ fnCall.fn = "findClosestGuitarNote"
    /\ Returns("findClosestGuitarNote",
               findClosestGuitarNote(fnCall.frequency))

CallFrequencyToNote ==
    /\ fnCall.fn = "frequencyToNote"
    /\ Returns("frequencyToNote", frequencyToNote(fnCall.frequency))

CallCalculateCentsDeviation ==
    /\ fnCall.fn = "calculateCentsDeviation"
    /\ Returns("calculateCentsDeviation",
               calculateCentsDeviation(fnCall.detectedFreq,
                                       fnCall.targetFreq))

NextFunctions ==
    \/ CallFormatTunerDisplay
    \/ CallGetTargetFrequency
    \/ CallFindClosestGuitarNote
    \/ CallFrequencyToNote
    \/ CallCalculateCentsDeviation

SpecFunctions == InitFunctions /\ [][NextFunctions]_vars

\* The song functions, each called once on a song at any position: the
\* default song, a fetched song and every song of up to MaxSections sections
\* of up to MaxSectionLines display lines.
MaxSections == 3
MaxSectionLines == 3
SongShapes == UNION {[1..n -> 1..MaxSectionLines] : n \in 1..MaxSections}
SongOf(shape) ==
    [title |-> "Song",
     sections |-> [k \in 1..Len(shape) |->
                      Section("Section " \o ToString(k), shape[k])],
     currentSectionIndex |-> 0,
     currentLineIndex |-> 0]
Positions(song) ==
    UNION {{[song EXCEPT !.currentSectionIndex = k - 1,
                         !.currentLineIndex = line] :
                line \in 0..(song.sections[k].lines - 1)} :
              k \in 1..Len(song.sections)}
Songs ==
    Positions(DefaultSong) \cup Positions(FetchedSong)
        \cup UNION {Positions(SongOf(shape)) : shape \in SongShapes}
SongCalls ==
    {[fn |-> fn, song |-> song] :
        fn \in {"navigateNext", "navigatePrevious"}, song \in Songs}

InitSongs ==
    /\ tunerState = initTunerState
    /\ argState = initTunerState
    /\ call = [fn |-> "initTunerState", command |-> "", audioData |-> NoAudio]
    /\ chunkCount = 0
    /\ steadyAudio = NoAudio
    /\ steadyCount = 0
    /\ fnCall \in SongCalls
    /\ fnResult = Null
    /\ Constructed

CallNavigateNext ==
    /\ fnCall.fn = "navigateNext"
    /\ Returns("navigateNext", navigateNext(fnCall.song))

CallNavigatePrevious ==
    /\ fnCall.fn = "navigatePrevious"
    /\ Returns("navigatePrevious", navigatePrevious(fnCall.song))

NextSongs ==
    \/ CallNavigateNext
    \/ CallNavigatePrevious

SpecSongs == InitSongs /\ [][NextSongs]_vars

\* chunkLine called once. Lines with up to MaxLineChords chords at
\* non-decreasing
\* columns and lyrics of up to MaxLyricLength characters (the k-th one the
\* k-th letter or a space) or none, broken at ChunkWidth columns; and the
\* lines of the default song, broken at the default width.
MaxLyricLength == 5
MaxLineChords == 2
ChunkWidth == 3
Letters == "abcdefghijklmnop"
RECURSIVE LyricText(_, _)
LyricText(n, spaces) ==
    IF n = 0 THEN ""
    ELSE LyricText(n - 1, spaces)
             \o (IF n \in spaces THEN " " ELSE CharAt(Letters, n))
LyricTexts ==
    {LyricText(n, spaces) : <<n, spaces>> \in
        UNION {{n} \X SUBSET (1..n) : n \in 0..MaxLyricLength}}
\* non-decreasing sequences of columns
NonDecreasing(columns) ==
    \A i \in 1..(Len(columns) - 1) : columns[i] <= columns[i + 1]
ChordColumns ==
    {columns \in UNION {[1..n -> 0..MaxLyricLength] : n \in 0..MaxLineChords} :
        NonDecreasing(columns)}
SmallLines ==
    {Line(chords, columns, lyrics) :
        <<chords, columns>> \in
            {pair \in (UNION {[1..n -> {"C", "Am"}] : n \in 0..MaxLineChords})
                        \X ChordColumns : Len(pair[1]) = Len(pair[2])},
        lyrics \in {Null} \cup {Some(text) : text \in LyricTexts}}
LineCalls ==
    {[fn |-> "chunkLine", line |-> line, maxLength |-> ChunkWidth] :
        line \in SmallLines}
    \cup {[fn |-> "chunkLine", line |-> line, maxLength |-> DisplayWidth] :
            line \in DefaultLines}

InitLines ==
    /\ tunerState = initTunerState
    /\ argState = initTunerState
    /\ call = [fn |-> "initTunerState", command |-> "", audioData |-> NoAudio]
    /\ chunkCount = 0
    /\ steadyAudio = NoAudio
    /\ steadyCount = 0
    /\ fnCall \in LineCalls
    /\ fnResult = Null
    /\ Constructed

CallChunkLine ==
    /\ fnCall.fn = "chunkLine"
    /\ Returns("chunkLine", chunkLine(fnCall.line, fnCall.maxLength))

NextLines == CallChunkLine

SpecLines == InitLines /\ [][NextLines]_vars

\* A song is built by processSongData and then navigated: any calls of
\* navigateNext, navigatePrevious and jumpToSection, each on the result of
\* the call before.  The songs have up to MaxRawLines lines, each in one of
\* two sections and short, long with lyrics or long without; or are the
\* default song.
MaxRawLines == 3
ShortLine == Line(<<"Am", "G">>, <<0, 12>>, Some("Let it be, let it be"))
LongLine ==
    Line(<<"C", "G", "Am", "Am/G", "Fmaj7", "F6">>,
         <<0, 17, 30, 40, 48, 56>>,
         Some("When I find myself in times of trouble, Mother Mary comes to me"))
LongInstrumental ==
    Line(<<"C", "G", "Am", "F", "C">>, <<0, 20, 40, 60, 80>>, Null)
RawLines ==
    {RawLine(section, line.chords, line.chord_positions, line.lyrics) :
        section \in {"Verse", "Chorus"},
        line \in {ShortLine, LongLine, LongInstrumental}}
RawSongs ==
    {RawSong("Song", lines) :
        lines \in UNION {[1..n -> RawLines] : n \in 1..MaxRawLines}}
    \cup {DEFAULT_SONG}
SectionNames == {"verse", "Chorus", "bridge"}

InitNavigation ==
    /\ tunerState = initTunerState
    /\ argState = initTunerState
    /\ call = [fn |-> "initTunerState", command |-> "", audioData |-> NoAudio]
    /\ chunkCount = 0
    /\ steadyAudio = NoAudio
    /\ steadyCount = 0
    /\ fnCall \in {[fn |-> "processSongData", rawData |-> rawData] :
                      rawData \in RawSongs}
    /\ fnResult = Null
    /\ Constructed

CallProcessSongData ==
    /\ fnCall.fn = "processSongData"
    /\ Returns("processSongData", processSongData(fnCall.rawData))

\* the next call, on the song the call before returned
ThenCalls(nextCall, result) ==
    /\ fnResult # Null
    /\ fnCall' = nextCall
    /\ fnResult' = Some(result)
    /\ UNCHANGED <<engineVars, appVars>>

ThenNavigateNext ==
    /\ fnResult # Null
    /\ ThenCalls([fn |-> "navigateNext", song |-> Val(fnResult)],
                 navigateNext(Val(fnResult)))

ThenNavigatePrevious ==
    /\ fnResult # Null
    /\ ThenCalls([fn |-> "navigatePrevious", song |-> Val(fnResult)],
                 navigatePrevious(Val(fnResult)))

ThenJumpToSection ==
    /\ fnResult # Null
    /\ \E sectionName \in SectionNames :
           ThenCalls([fn |-> "jumpToSection", song |-> Val(fnResult),
                      sectionName |-> sectionName],
                     jumpToSection(Val(fnResult), sectionName))

NextNavigation ==
    \/ CallProcessSongData
    \/ ThenNavigateNext
    \/ ThenNavigatePrevious
    \/ ThenJumpToSection

SpecNavigation == InitNavigation /\ [][NextNavigation]_vars

\* The peak extractor and the fundamental selector, each called once.
\* Chunks with up to MaxLobes periodicities: periods of 45, 49, 73, 98, 147
\* and 196 samples (49 is the second, third and fourth harmonic of the
\* others), weak or strong.
MaxLobes == 4
PeakLobes == {<<lag, height>> : lag \in {45, 49, 73, 98, 147, 196},
                                height \in {600, 900}}
\* a chunk whose strongest period, 66 samples (242.4 Hz), is near the second
\* harmonic of 126 samples and the third of 207 samples
TwiceHarmonicChunk == Audio(500, {<<66, 900>>, <<126, 800>>, <<207, 850>>})
PeakChunks ==
    {Audio(500, lobes) : lobes \in
        {L \in SUBSET PeakLobes :
            /\ Cardinality(L) <= MaxLobes
            /\ \A a, b \in L : a[1] = b[1] => a = b}}
        \cup {TwiceHarmonicChunk}
PeakLists ==
    {findMultiplePeaks(calculateAutocorrelation(a), SAMPLE_RATE) :
         a \in PeakChunks}
\* short profiles at a sample rate of 560 Hz, where the lags searched are
\* 5, 6 and 7: any values at lags 4..8, profiles of 7 to 10 samples
SmallSampleRate == 560
SmallValues == {-1, 0, 2, 3, 5}
SmallProfiles ==
    {[lag \in 0..(length - 1) |->
          IF lag = 0 THEN 9 ELSE IF lag < 4 THEN 1
          ELSE IF lag - 3 <= Len(v) THEN v[lag - 3] ELSE 0] :
        length \in 7..10,
        v \in [1..5 -> SmallValues]}

\* a pure tone of every period a chunk can show
PureTones == {Tone(lag) : lag \in 1..(ChunkLength - 2)}

PeakCalls ==
    {[fn |-> "findMultiplePeaks", autocorrelation |-> a,
      sampleRate |-> SmallSampleRate] : a \in SmallProfiles}
        \cup {[fn |-> "findMultiplePeaks",
               autocorrelation |-> calculateAutocorrelation(a),
               sampleRate |-> SAMPLE_RATE] : a \in Chunks}
        \cup {[fn |-> "selectFundamentalFrequency", peaks |-> peaks,
               sampleRate |-> SAMPLE_RATE] : peaks \in PeakLists}
        \cup {[fn |-> "detectPitch", audioData |-> a,
               sampleRate |-> SAMPLE_RATE] : a \in Chunks \cup PureTones}
        \cup {[fn |-> "findMultiplePeaks",
               autocorrelation |-> calculateAutocorrelation(a),
               sampleRate |-> SAMPLE_RATE] : a \in PureTones}

InitPeaks ==
    /\ tunerState = initTunerState
    /\ argState = initTunerState
    /\ call = [fn |-> "initTunerState", command |-> "", audioData |-> NoAudio]
    /\ chunkCount = 0
    /\ steadyAudio = NoAudio
    /\ steadyCount = 0
    /\ fnCall \in PeakCalls
    /\ fnResult = Null
    /\ Constructed

CallFindMultiplePeaks ==
    /\ fnCall.fn = "findMultiplePeaks"
    /\ Returns("findMultiplePeaks",
               findMultiplePeaks(fnCall.autocorrelation, fnCall.sampleRate))

CallSelectFundamentalFrequency ==
    /\ fnCall.fn = "selectFundamentalFrequency"
    /\ Returns("selectFundamentalFrequency",
               selectFundamentalFrequency(fnCall.peaks, fnCall.sampleRate))

CallDetectPitch ==
    /\ fnCall.fn = "detectPitch"
    /\ Returns("detectPitch", detectPitch(fnCall.audioData, fnCall.sampleRate))

NextPeaks ==
    \/ CallFindMultiplePeaks
    \/ CallSelectFundamentalFrequency
    \/ CallDetectPitch

SpecPeaks == InitPeaks /\ [][NextPeaks]_vars

\* The app instance with its sessions: sessions open, speech is
\* transcribed, audio chunks arrive for any open session, keys are pressed,
\* chord lookups settle, timers run when they are due and time passes.
MaxEvents == 1
MaxAppChunks == 1
MaxTime == 1002
TickSteps == {500, 501}
AppChunks == {Audio(500, {}), Audio(500, {<<145, 900>>})}
Keys == {"Right", "Left", "Escape", "x"}
LookupOutcomes == {"found", "none", "error"}

App ==
    [tunerState |-> tunerState, isShowingMessage |-> isShowingMessage,
     currentSong |-> currentSong, lastTunerUpdateTime |-> lastTunerUpdateTime,
     timers |-> timers, lookups |-> lookups, display |-> display]
\* the handler leaves the app as app; the engine's history records the call
Becomes(app, fn, command, audioData) ==
    /\ tunerState' = app.tunerState
    /\ isShowingMessage' = app.isShowingMessage
    /\ currentSong' = app.currentSong
    /\ lastTunerUpdateTime' = app.lastTunerUpdateTime
    /\ timers' = app.timers
    /\ lookups' = app.lookups
    /\ display' = app.display
    /\ argState' = tunerState
    /\ call' = [fn |-> fn, command |-> command, audioData |-> audioData]
    /\ UNCHANGED <<steadyAudio, steadyCount, fnVars>>
Connected(session) == \E k \in 1..Len(sessions) : sessions[k] = session
\* the TunerState a session's handlers read and write: this.tunerState, the
\* one field of the app instance, whatever the session
sessionTunerState(session) == tunerState

\* sessions are numbered as they open
OpenSession ==
    /\ Len(sessions) < Cardinality(Sessions)
    /\ LET session == Len(sessions) + 1
       IN  /\ sessions' = Append(sessions, session)
           /\ event' = [handler |-> "onSession", session |-> session]
           /\ Becomes(onSession(App, session, now), "onSession", "", NoAudio)
    /\ UNCHANGED <<now, chunkCount, eventCount, tickCount>>

Transcription ==
    /\ eventCount < MaxEvents
    /\ \E session \in Sessions, text \in Texts :
        /\ Connected(session)
        /\ event' = [handler |-> "onTranscription", session |-> session]
        /\ Becomes(onTranscription(App, session, text, now),
                   "handleTunerCommand",
                   TranscriptionTable[text].transcription, NoAudio)
    /\ eventCount' = eventCount + 1
    /\ UNCHANGED <<sessions, now, chunkCount, tickCount>>

AppAudioChunk ==
    /\ chunkCount < MaxAppChunks
    /\ tunerState.isActive /\ ~isShowingMessage
    /\ \E session \in Sessions, audioData \in AppChunks :
        /\ Connected(session)
        /\ event' = [handler |-> "onAudioChunk", session |-> session]
        /\ Becomes(onAudioChunk(App, session, audioData, now),
                   "processTunerAudioChunk", "", audioData)
    /\ chunkCount' = chunkCount + 1
    /\ UNCHANGED <<sessions, now, eventCount, tickCount>>

KeyPress ==
    /\ eventCount < MaxEvents
    /\ sessions # <<>>
    /\ \E keyPress \in Keys :
        Becomes(keyPressed(App, sessions, keyPress, now),
                "keyPress", keyPress, NoAudio)
    /\ event' = [handler |-> "keyPress", session |-> 0]
    /\ eventCount' = eventCount + 1
    /\ UNCHANGED <<sessions, now, chunkCount, tickCount>>

LookupSettles ==
    /\ lookups # <<>>
    /\ \E outcome \in LookupOutcomes :
        Becomes(lookupSettles([App EXCEPT !.lookups = Tail(lookups)],
                              Head(lookups), outcome, now),
                "fetchSongChords", Head(lookups).songName, NoAudio)
    /\ event' = [handler |-> "fetchSongChords",
                 session |-> Head(lookups).session]
    /\ UNCHANGED <<sessions, now, chunkCount, eventCount, tickCount>>

\* the timer to run next: the earliest due, the first set among equals
NextTimer ==
    CHOOSE k \in 1..Len(timers) :
        \A j \in 1..Len(timers) :
            \/ timers[k].due < timers[j].due
            \/ timers[k].due = timers[j].due /\ k <= j
Without(seq, k) == SubSeq(seq, 1, k - 1) \o SubSeq(seq, k + 1, Len(seq))

\* time passes until the next timer is due and its callback runs
TimerFires ==
    /\ timers # <<>>
    /\ LET timer == timers[NextTimer]
           time == Max2(now, timer.due)
       IN  /\ now' = time
           /\ Becomes(runTimer([App EXCEPT !.timers = Without(timers, NextTimer)],
                               timer, time),
                      "setTimeout", timer.callback, NoAudio)
           /\ event' = [handler |-> "setTimeout", session |-> timer.session]
    /\ UNCHANGED <<sessions, chunkCount, eventCount, tickCount>>

\* time passes, not beyond the next timer; no handler reads the clock
\* before the first session opens
Tick ==
    /\ sessions # <<>>
    /\ \E step \in TickSteps :
        /\ now + step <= Epoch + MaxTime
        /\ \A k \in 1..Len(timers) : now + step <= timers[k].due
        /\ now' = now + step
    /\ UNCHANGED <<engineVars, fnVars, sessions, isShowingMessage, currentSong,
                   lastTunerUpdateTime, timers, lookups, display, event,
                   eventCount, tickCount>>

NextApp ==
    \/ OpenSession
    \/ Transcription
    \/ AppAudioChunk
    \/ KeyPress
    \/ LookupSettles
    \/ TimerFires
    \/ Tick

SpecApp == Init /\ [][NextApp]_vars

\* One session of the app under speech and key presses: the session opens,
\* up to MaxSoloEvents transcriptions and key presses arrive, lookups settle
\* and timers run.
MaxSoloEvents == 3
SoloSession == 1

SoloOpen ==
    /\ sessions = <<>>
    /\ sessions' = <<SoloSession>>
    /\ event' = [handler |-> "onSession", session |-> SoloSession]
    /\ Becomes(onSession(App, SoloSession, now), "onSession", "", NoAudio)
    /\ UNCHANGED <<now, chunkCount, eventCount, tickCount>>

\* a final transcription of any of texts, the limit-th event at most
Heard(texts, limit) ==
    /\ eventCount < limit
    /\ sessions # <<>>
    /\ \E text \in texts :
        Becomes(onTranscription(App, SoloSession, text, now),
                "handleTunerCommand",
                TranscriptionTable[text].transcription, NoAudio)
    /\ event' = [handler |-> "onTranscription", session |-> SoloSession]
    /\ eventCount' = eventCount + 1
    /\ UNCHANGED <<sessions, now, chunkCount, tickCount>>

SoloTranscription == Heard(Texts, MaxSoloEvents)

\* a key press, the limit-th event at most
Pressed(limit) ==
    /\ eventCount < limit
    /\ sessions # <<>>
    /\ \E keyPress \in Keys :
        Becomes(keyPressed(App, sessions, keyPress, now),
                "keyPress", keyPress, NoAudio)
    /\ event' = [handler |-> "keyPress", session |-> 0]
    /\ eventCount' = eventCount + 1
    /\ UNCHANGED <<sessions, now, chunkCount, tickCount>>

SoloKeyPress == Pressed(MaxSoloEvents)

NextSolo ==
    \/ SoloOpen
    \/ SoloTranscription
    \/ SoloKeyPress
    \/ LookupSettles
    \/ TimerFires

SpecSolo == Init /\ [][NextSolo]_vars

\* The same with up to MaxLiveEvents events, where the event loop runs every
\* timer that is due and every lookup process ends.
MaxLiveEvents == 2
LiveTranscription == Heard(Texts, MaxLiveEvents)
LiveKeyPress == Pressed(MaxLiveEvents)

NextLive ==
    \/ SoloOpen
    \/ LiveTranscription
    \/ LiveKeyPress
    \/ LookupSettles
    \/ TimerFires

SpecLive ==
    /\ Init
    /\ [][NextLive]_vars
    /\ WF_vars(TimerFires)
    /\ WF_vars(LookupSettles)

\* One session of the app under audio: the session opens, tuner mode is
\* entered and left by voice, audio chunks arrive in any mode (the handler
\* decides whether the engine sees them), timers run and time passes
\* between the events.
MaxTunerEvents == 2
MaxTunerChunks == 3
MaxPauses == 2
TunerTexts == {"Tune guitar", "Exit tuner mode"}

TunerTranscription == Heard(TunerTexts, MaxTunerEvents)

TunerAudioChunk ==
    /\ chunkCount < MaxTunerChunks
    /\ sessions # <<>>
    /\ \E audioData \in AppChunks :
        Becomes(audioChunkHandler(App, SoloSession, audioData, now),
                IF tunerState.isActive /\ ~isShowingMessage
                THEN "processTunerAudioChunk" ELSE "onAudioChunk",
                "", audioData)
    /\ event' = [handler |-> "onAudioChunk", session |-> SoloSession]
    /\ chunkCount' = chunkCount + 1
    /\ UNCHANGED <<sessions, now, eventCount, tickCount>>

\* time passes between two events, not beyond the next timer: no handler
\* runs
Pause ==
    /\ tickCount < MaxPauses
    /\ sessions # <<>>
    /\ \E step \in TickSteps :
        /\ \A k \in 1..Len(timers) : now + step <= timers[k].due
        /\ now' = now + step
    /\ tickCount' = tickCount + 1
    /\ event' = [handler |-> "none", session |-> 0]
    /\ UNCHANGED <<engineVars, fnVars, sessions, isShowingMessage, currentSong,
                   lastTunerUpdateTime, timers, lookups, display, eventCount>>

NextTuner ==
    \/ SoloOpen
    \/ TunerTranscription
    \/ TunerAudioChunk
    \/ TimerFires
    \/ Pause

SpecTuner == Init /\ [][NextTuner]_vars

\* ------------------------------------------------------------------ claims
IsCommandCall == call.fn = "handleTunerCommand"
IsChunkCall == call.fn = "processTunerAudioChunk"
\* what detectPitch found in the chunk of the last call
Detected == detectPitch(call.audioData, SAMPLE_RATE)
SameDetection(s, t) ==
    /\ s.detectedNote = t.detectedNote
    /\ s.detectedFrequency = t.detectedFrequency
    /\ s.deviation = t.deviation

\* C1: detectedFrequency is absent or within [MIN_FREQUENCY, MAX_FREQUENCY],
\* also after the stability filter has blended two detections.
C1_FrequencyInRange ==
    tunerState.detectedFrequency # Null =>
        /\ Val(tunerState.detectedFrequency) >= Hz(70)
        /\ Val(tunerState.detectedFrequency) <= Hz(350)

\* a blended frequency: neither the previous value nor the new detection
C1_Witness ==
    /\ IsChunkCall
    /\ argState.detectedFrequency # Null
    /\ Detected # Null
    /\ tunerState.detectedFrequency # argState.detectedFrequency
    /\ tunerState.detectedFrequency # Detected

\* C2: whenever deviation is present it is the rounded cents between the
\* current detectedFrequency and the frequency of the current targetNote.
C2_DeviationMatchesTarget ==
    tunerState.deviation # Null =>
        /\ tunerState.detectedFrequency # Null
        /\ Val(tunerState.deviation) =
              RoundCents(Val(tunerState.detectedFrequency),
                         getTargetFrequency(tunerState.targetNote))

\* C3: one command per text, SetTarget before Exit before Enter: a text that
\* matches 'tune to <note>' never changes isActive, and a text without such a
\* match that holds an exit phrase and an enter phrase deactivates.
C3_CommandPriority ==
    IsCommandCall =>
        /\ tuneToMatch(call.command) # Null =>
              tunerState.isActive = argState.isActive
        /\ (/\ tuneToMatch(call.command) = Null
            /\ IsExitCommand(call.command)
            /\ IsEnterCommand(call.command)) => ~tunerState.isActive
        /\ call.command = "tuner mode, tune to bb" =>
              tunerState.isActive = argState.isActive
        /\ call.command = "tune to chord mode" =>
              tunerState.isActive = argState.isActive
        /\ call.command = "exit tuner mode" => ~tunerState.isActive

\* 'tune to' together with an enter phrase, while inactive: still inactive
C3_Witness ==
    /\ IsCommandCall
    /\ call.command = "tuner mode, tune to bb"
    /\ ~argState.isActive
    /\ ~tunerState.isActive
    /\ tunerState.targetNote = "BB"

\* C4: a text matching 'tune to <letter>[#|b]' sets targetNote to the
\* uppercased capture and changes no other field, active or not.
C4_TuneToSetsTargetOnly ==
    (IsCommandCall /\ tuneToMatch(call.command) # Null) =>
        /\ tunerState.targetNote = ToUpperCase(Val(tuneToMatch(call.command)))
        /\ tunerState.isActive = argState.isActive
        /\ SameDetection(tunerState, argState)
        /\ call.command = "Tune  to G#" => tunerState.targetNote = "G#"
        /\ call.command = "tune to a" => tunerState.targetNote = "A"

C4_Witness ==
    /\ IsCommandCall
    /\ call.command = "Tune  to G#"
    /\ argState.targetNote # "G#"
    /\ tunerState.targetNote = "G#"
    /\ tunerState.isActive
    /\ tunerState.detectedFrequency # Null

\* C5: a text without a 'tune to' match that holds 'exit tuner' or 'chord
\* mode' deactivates and changes no other field; no command changes the
\* detection fields, so a detection survives exit and re-entry.
C5_ExitOnlyDeactivates ==
    IsCommandCall =>
        /\ SameDetection(tunerState, argState)
        /\ (tuneToMatch(call.command) = Null /\ IsExitCommand(call.command)) =>
              tunerState = [argState EXCEPT !.isActive = FALSE]
        /\ call.command \in {"exit tuner please", "chord mode"} =>
              ~tunerState.isActive

C5_Witness ==
    /\ IsCommandCall
    /\ call.command = "exit tuner please"
    /\ argState.isActive
    /\ ~tunerState.isActive
    /\ tunerState.detectedFrequency # Null
    /\ tunerState.targetNote = "A"

C7_NoOpUnchanged ==
    IsCommandCall =>
        /\ (/\ tuneToMatch(call.command) = Null
            /\ ~IsExitCommand(call.command)
            /\ ~IsEnterCommand(call.command)) => tunerState = argState
        /\ call.command \in {"tune to h", "next"} => tunerState = argState

C7_Witness ==
    /\ IsCommandCall
    /\ call.command = "tune to h"
    /\ argState.isActive
    /\ argState.detectedFrequency # Null
    /\ tunerState = argState

\* C8: an active tuner that processes a chunk without a detection (too
\* quiet, no peaks, or a fundamental out of range) keeps every field.
C8_NoDetectionKeepsState ==
    (IsChunkCall /\ argState.isActive /\ Detected = Null) =>
        tunerState = argState

\* silence right after a detection
C8_Witness ==
    /\ IsChunkCall
    /\ argState.isActive
    /\ argState.detectedFrequency # Null
    /\ calculateSignalStrength(call.audioData) < 100
    /\ tunerState.detectedFrequency = argState.detectedFrequency
    /\ tunerState.deviation # Null

\* C9: with detection n and previous value p an active tuner stores n if
\* there is no p, 0.7 n + 0.3 p if |n - p| / p * 100 < 3, else 0.9 n + 0.1 p,
\* and computes detectedNote and deviation from the stored value.
C9_Blended ==
    LET n == Val(Detected)
        p == Val(argState.detectedFrequency)
    IN IF argState.detectedFrequency = Null THEN n
       ELSE IF 100 * Abs(n - p) < 3 * p
            THEN RoundDiv(7 * n + 3 * p, 10)
            ELSE RoundDiv(9 * n + p, 10)
C9_SmoothingRule ==
    (IsChunkCall /\ argState.isActive /\ Detected # Null) =>
        /\ tunerState.detectedFrequency = Some(C9_Blended)
        /\ tunerState.detectedNote = Some(findClosestGuitarNote(C9_Blended))
        /\ tunerState.deviation =
              Some(RoundCents(C9_Blended, getTargetFrequency(argState.targetNote)))

\* a blend under 3% whose note or cents differ from those of the raw detection
C9_Witness ==
    /\ IsChunkCall
    /\ argState.isActive
    /\ Detected # Null
    /\ argState.detectedFrequency # Null
    /\ 100 * Abs(Val(Detected) - Val(argState.detectedFrequency))
          < 3 * Val(argState.detectedFrequency)
    /\ tunerState.detectedFrequency # Detected
    /\ tunerState.deviation #
          Some(RoundCents(Val(Detected), getTargetFrequency(argState.targetNote)))

\* C10: while every chunk detects the same frequency f, the smoothed
\* detectedFrequency is within 0.1% of f from the ConvergeChunks-th chunk on,
\* whatever the previous value was, and once within 0.1% it stays there.
ConvergeChunks == 5
WithinTenthPercent(state, f) ==
    /\ state.detectedFrequency # Null
    /\ 1000 * Abs(Val(state.detectedFrequency) - f) <= f
C10_SteadyConverges ==
    steadyCount > 0 =>
        LET f == Val(detectPitch(steadyAudio, SAMPLE_RATE))
        IN /\ steadyCount >= ConvergeChunks => WithinTenthPercent(tunerState, f)
           /\ (steadyCount > 1 /\ WithinTenthPercent(argState, f)) =>
                 WithinTenthPercent(tunerState, f)

\* a run that starts more than 3% away and has converged
C10_Witness ==
    /\ steadyCount = ConvergeChunks
    /\ WithinTenthPercent(tunerState, Val(detectPitch(steadyAudio, SAMPLE_RATE)))
    /\ ~WithinTenthPercent(argState, Val(detectPitch(steadyAudio, SAMPLE_RATE)))

\* the call of a pure function that has returned
Returned(fn) == fnCall.fn = fn /\ fnResult # Null

RECURSIVE SplitLines(_, _, _)
\* the lines of a text: its pieces between line feeds
SplitLines(s, i, start) ==
    IF i > Len(s) THEN <<SubSeq(s, start, Len(s))>>
    ELSE IF CharAt(s, i) = "\n"
         THEN <<SubSeq(s, start, i - 1)>> \o SplitLines(s, i + 1, i + 1)
         ELSE SplitLines(s, i + 1, start)
Lines(s) == SplitLines(s, 1, 1)
Markers(n, mark) == {Repeat(mark, k) : k \in 1..5} \cap {Repeat(mark, n)}

\* C12: formatTunerDisplay gives five lines: 'TARGET NOTE: <targetNote>', an
\* empty line, exactly one of four status lines, an empty line and a command
\* hint. The status is the no-pitch hint when detectedNote or deviation is
\* absent, IN TUNE when |deviation| < 5, TUNE UP with min(ceil(|d|/10),5)
\* markers when deviation <= -5 and TUNE DOWN with min(ceil(d/10),5) markers
\* when deviation >= 5; there are always 1 to 5 markers.
C12_DisplayClassified ==
    Returned("formatTunerDisplay") =>
        LET t == fnCall.tunerState
            lines == Lines(Val(fnResult))
            absent == t.detectedNote = Null \/ Val(t.detectedNote) = ""
                          \/ t.deviation = Null
            d == Val(t.deviation)
            note == Val(t.detectedNote)
        IN  /\ Len(lines) = 5
            /\ lines[1] = "TARGET NOTE: " \o t.targetNote
            /\ lines[2] = "" /\ lines[4] = ""
            /\ StartsWith(lines[5], "Say \"tune to [NOTE]\" or \"exit")
            /\ absent => lines[3] = "No pitch detected. Play a note."
            /\ (~absent /\ Abs(d) < 5) =>
                   lines[3] = note \o ": ** IN TUNE! **"
            /\ (~absent /\ d <= -5) =>
                   \E m \in Markers(Min2(CeilDiv(Abs(d), 10), 5), "<") :
                       lines[3] = note \o ": TUNE UP " \o m \o "|"
            /\ (~absent /\ d >= 5) =>
                   \E m \in Markers(Min2(CeilDiv(d, 10), 5), ">") :
                       lines[3] = note \o ": TUNE DOWN |" \o m

\* a flat reading beyond 50 cents: the marker count is capped at five
C12_Witness ==
    /\ Returned("formatTunerDisplay")
    /\ fnCall.tunerState.deviation = Some(-MaxDeviation)
    /\ fnCall.tunerState.detectedNote = Some("A")
    /\ Lines(Val(fnResult))[3] = "A: TUNE UP <<<<<|"

\* the table entries whose identifier starts with note
EntriesStartingWith(note) ==
    {k \in 1..Len(NOTE_FREQUENCIES) :
         /\ Len(note) <= Len(NOTE_FREQUENCIES[k].note)
         /\ SubSeq(NOTE_FREQUENCIES[k].note, 1, Len(note)) = note}

\* C13: getTargetFrequency returns the frequency of the first table entry
\* whose identifier starts with note, and 82.41 Hz for a note that is a prefix
\* of no entry ('C', 'F', 'G#', 'BB'); every call returns.
C13_TargetFrequencyLookup ==
    Returned("getTargetFrequency") =>
        LET note == fnCall.note
            entries == EntriesStartingWith(note)
            first == CHOOSE k \in entries : \A j \in entries : k <= j
        IN  /\ entries # {} => Val(fnResult) = NOTE_FREQUENCIES[first].freq
            /\ entries = {} => Val(fnResult) = 82410
            /\ note \in {"C", "F", "G#", "BB"} => Val(fnResult) = 82410
            /\ note = "E" => Val(fnResult) = 82410
            /\ note = "E4" => Val(fnResult) = 329630
            /\ note = "G" => Val(fnResult) = 196000

\* an unknown note has fallen back to the low-E frequency
C13_Witness ==
    /\ Returned("getTargetFrequency")
    /\ fnCall.note = "BB"
    /\ EntriesStartingWith(fnCall.note) = {}
    /\ fnResult = Some(82410)

\* the distance in millihertz between f and table entry k
Distance(f, k) == Abs(f - NOTE_FREQUENCIES[k].freq)
\* the first of the table entries nearest to f
NearestEntry(f) ==
    CHOOSE k \in 1..6 :
        /\ \A j \in 1..6 : Distance(f, k) <= Distance(f, j)
        /\ \A j \in 1..(k - 1) : Distance(f, k) < Distance(f, j)

\* C14: findClosestGuitarNote returns the bare letter of a table entry,
\* chosen by comparing f with all six frequencies; within 12 Hz of 82.41 Hz
\* low E is returned unless another entry is closer by the 1.5x margin;
\* 83.0 Hz gives 'E' and 150.0 Hz gives 'D'.
C14_ClosestGuitarNote ==
    Returned("findClosestGuitarNote") =>
        LET f == fnCall.frequency
            lowE == Distance(f, 1)
            beaten == \E k \in 2..6 : 3 * Distance(f, k) <= 2 * lowE
        IN  /\ Val(fnResult) \in {"E", "A", "D", "G", "B"}
            /\ (lowE < Hz(12) /\ ~beaten) => Val(fnResult) = "E"
            /\ (lowE >= Hz(12) \/ beaten) =>
                   Val(fnResult) =
                       SubSeq(NOTE_FREQUENCIES[NearestEntry(f)].note, 1, 1)
            /\ f = Hz(83) => Val(fnResult) = "E"
            /\ f = Hz(150) => Val(fnResult) = "D"

\* low E chosen near the edge of its 12 Hz window
C14_Witness ==
    /\ Returned("findClosestGuitarNote")
    /\ Distance(fnCall.frequency, 1) > Hz(11)
    /\ Distance(fnCall.frequency, 1) < Hz(12)
    /\ fnCall.frequency > 82410
    /\ fnResult = Some("E")

\* C18: with h = round(12*log2(f/440)), frequencyToNote gives the name of
\* index ((h+9) mod 12 + 12) mod 12, which is in 0..11, and the octave
\* 4 + floor((h+9)/12), so that 12*(octave-4) + index = h + 9 also for
\* negative h; 440 Hz gives 'A4' and 82.41 Hz gives 'E2'.
C18_NoteIndexAndOctave ==
    Returned("frequencyToNote") =>
        LET f == fnCall.frequency
            h == RoundHalfSteps(f, Hz(440))
            index == (((h + 9) % 12) + 12) % 12
            oct == 4 + ((h + 9 - index) \div 12)
        IN  /\ index \in 0..11
            /\ 12 * (oct - 4) + index = h + 9
            /\ Val(fnResult) = NOTE_NAMES[index + 1] \o ToString(oct)
            /\ f = Hz(440) => h = 0 /\ Val(fnResult) = "A4"
            /\ f = 82410 => h = -29 /\ Val(fnResult) = "E2"
            /\ f = Hz(16) => Val(fnResult) = "C0"
            /\ f = Hz(1220) => Val(fnResult) = "D#6"

\* a note below C4 whose h + 9 is negative and no multiple of 12
C18_Witness ==
    /\ Returned("frequencyToNote")
    /\ fnCall.frequency = 82410
    /\ RoundHalfSteps(fnCall.frequency, Hz(440)) + 9 < 0
    /\ fnResult = Some("E2")

\* C19: calculateCentsDeviation is 0 for equal frequencies, never positive
\* when detected < target, never negative when detected > target, and within
\* 1 of +100 / -100 one half step above / below the target (466.16 and
\* 415.30 against 440).
C19_CentsSign ==
    Returned("calculateCentsDeviation") =>
        LET d == fnCall.detectedFreq
            t == fnCall.targetFreq
            cents == Val(fnResult)
        IN  /\ d = t => cents = 0
            /\ d < t => cents <= 0
            /\ d > t => cents >= 0
            /\ d = HalfStepAbove(t) => Abs(cents - 100) <= 1
            /\ d = HalfStepBelow(t) => Abs(cents + 100) <= 1
            /\ (d = 466160 /\ t = Hz(440)) => Abs(cents - 100) <= 1
            /\ (d = 415300 /\ t = Hz(440)) => Abs(cents + 100) <= 1

\* one half step flat
C19_Witness ==
    /\ Returned("calculateCentsDeviation")
    /\ fnCall.detectedFreq = 415300
    /\ fnCall.targetFreq = Hz(440)
    /\ Val(fnResult) < 0
    /\ Abs(Val(fnResult) + 100) <= 1

NoteLetters == {"A", "B", "C", "D", "E", "F", "G"}

\* C20 as stated: targetNote is always a letter A-G, optionally followed by
\* '#' or 'b'.
C20_TargetNoteLowerFlat ==
    tunerState.targetNote \in
        NoteLetters \cup {l \o a : l \in NoteLetters, a \in {"#", "b"}}

\* C20: targetNote is always an uppercase letter A-G, optionally followed by
\* one accidental as toUpperCase leaves it: '#' or 'B'.
C20_TargetNoteShape ==
    tunerState.targetNote \in
        NoteLetters \cup {l \o a : l \in NoteLetters, a \in {"#", "B"}}

\* a spoken flat has been stored
C20_Witness ==
    /\ IsCommandCall
    /\ call.command = "tuner mode, tune to bb"
    /\ argState.targetNote = "A"
    /\ tunerState.targetNote = "BB"

\* the peak list of a selectFundamentalFrequency call, and its flagged peaks
Flagged(peak, peaks) == \E divisor \in {2, 3, 4} : HarmonicOf(peak, peaks, divisor)

\* C15: a peak flagged as likely a harmonic loses exactly 0.5 of its score,
\* however many of the divisors 2, 3 and 4 have a matching lower peak; an
\* unflagged peak loses nothing.
C15_PenaltyOnce ==
    Returned("selectFundamentalFrequency") =>
        \A k \in 1..Len(fnCall.peaks) :
            LET peak == fnCall.peaks[k]
            IN  peakScore(peak, fnCall.peaks) =
                    scoreBeforePenalty(peak, fnCall.peaks)
                        - (IF Flagged(peak, fnCall.peaks) THEN 5000 ELSE 0)

\* the peaks of maximal score
BestPeaks(peaks) ==
    {k \in 1..Len(peaks) :
        \A j \in 1..Len(peaks) :
            peakScore(peaks[k], peaks) >= peakScore(peaks[j], peaks)}

\* C16: for a non-empty list from the peak extractor selectFundamentalFrequency
\* returns the frequency of the earliest peak of maximal score and never
\* 'no detection'; for the empty list it returns 'no detection'; detectPitch
\* reports the selected frequency only if it is within [70, 350] Hz.
C16_SelectsBestPeak ==
    /\ Returned("selectFundamentalFrequency") =>
           LET peaks == fnCall.peaks
               best == CHOOSE k \in BestPeaks(peaks) :
                           \A j \in BestPeaks(peaks) : k <= j
           IN  /\ Len(peaks) = 0 <=> Val(fnResult) = Null
               /\ Len(peaks) > 0 =>
                      Val(fnResult) = Some(peaks[best].frequency)
    /\ Returned("detectPitch") =>
           LET peaks == findMultiplePeaks(
                            calculateAutocorrelation(fnCall.audioData),
                            fnCall.sampleRate)
               selected == selectFundamentalFrequency(peaks, fnCall.sampleRate)
               inRange == /\ selected # Null
                          /\ Val(selected) >= Hz(70)
                          /\ Val(selected) <= Hz(350)
           IN  /\ Val(fnResult) # Null =>
                      inRange /\ Val(fnResult) = selected
               /\ (fnCall.audioData.rms >= 10 /\ inRange) =>
                      Val(fnResult) = selected
               /\ ~inRange => Val(fnResult) = Null

\* the strongest peak is not the one selected
C16_Witness ==
    /\ Returned("selectFundamentalFrequency")
    /\ Len(fnCall.peaks) >= 3
    /\ fnResult = Some(Some(fnCall.peaks[3].frequency))
    /\ peakScore(fnCall.peaks[1], fnCall.peaks)
           < peakScore(fnCall.peaks[3], fnCall.peaks)

\* C17: findMultiplePeaks returns exactly the lags i in [startLag, maxLag)
\* with both neighbours inside the profile whose value, divided by the
\* maximum over [startLag, maxLag), exceeds 0.4 and is strictly greater than
\* both neighbours; every strength is in (0.4, 1]; the list is in
\* non-increasing order of strength; it is empty when the maximum is 0. The
\* maximum is the one the search keeps, which starts from 0: it is 0 when no
\* value in the range is positive.
C17_PeaksExactly ==
    Returned("findMultiplePeaks") =>
        LET a == fnCall.autocorrelation
            peaks == Val(fnResult)
            length == Cardinality(DOMAIN a)
            startLag == Max2(5, fnCall.sampleRate \div 350)
            maxLag == CeilDiv(fnCall.sampleRate, 70)
            range == {i \in startLag..(maxLag - 1) : i <= length - 1}
            values == {a[i] : i \in range} \cup {0}
            maxVal == CHOOSE m \in values : \A v \in values : m >= v
            expected == {i \in range :
                            /\ i + 1 <= length - 1
                            /\ 10 * a[i] > 4 * maxVal
                            /\ a[i] > a[i - 1]
                            /\ a[i] > a[i + 1]}
        IN  /\ maxVal = 0 => peaks = <<>>
            /\ maxVal > 0 =>
                   /\ {peaks[k].index : k \in 1..Len(peaks)} = expected
                   /\ Len(peaks) = Cardinality(expected)
            /\ \A k \in 1..Len(peaks) :
                   /\ peaks[k].strength > 4000
                   /\ peaks[k].strength <= 10000
                   /\ peaks[k].strength * maxVal <= a[peaks[k].index] * 10000 + maxVal
                   /\ peaks[k].strength * maxVal >= a[peaks[k].index] * 10000 - maxVal
            /\ \A k \in 1..(Len(peaks) - 1) :
                   peaks[k].strength >= peaks[k + 1].strength

\* the profile's last lag, 7, is in the range searched and above its left
\* neighbour but has no right neighbour: the only peak is lag 5, which is
\* weaker than the maximum
C17_Witness ==
    /\ Returned("findMultiplePeaks")
    /\ fnCall.sampleRate = SmallSampleRate
    /\ Cardinality(DOMAIN fnCall.autocorrelation) = 8
    /\ fnCall.autocorrelation[7] > fnCall.autocorrelation[6]
    /\ Len(Val(fnResult)) = 1
    /\ Val(fnResult)[1].index = 5
    /\ Val(fnResult)[1].strength < 10000

\* C11: each session owns an independent TunerState: a command or an audio
\* chunk handled for one session never changes the isActive, targetNote or
\* detection fields that another connected session of the same app instance
\* observes.  The code keeps one TunerState per app instance, so the state
\* after a transcription or a chunk of one session is what every other
\* session observes.
C11_SessionsIndependent ==
    event.handler \in {"onTranscription", "onAudioChunk"} =>
        \A session \in Sessions :
            (Connected(session) /\ session # event.session) =>
                LET observed == sessionTunerState(session)
                IN  /\ observed.isActive = argState.isActive
                    /\ observed.targetNote = argState.targetNote
                    /\ observed.detectedNote = argState.detectedNote
                    /\ observed.detectedFrequency = argState.detectedFrequency
                    /\ observed.deviation = argState.deviation

\* C21: whenever the app enters tuner mode through a voice command, the
\* target note is E at that moment, as the entry message 'Default target: E'
\* announces, whatever commands were handled before.  handleTunerCommand
\* sets isActive and keeps the targetNote an earlier 'tune to' stored.
EnteredByVoice ==
    /\ event.handler = "onTranscription"
    /\ ~argState.isActive
    /\ tunerState.isActive
C21_EntryTargetIsE ==
    EnteredByVoice =>
        /\ display[event.session] = "Entering tuner mode...\nDefault target: E"
        /\ tunerState.targetNote = "E"

\* C22: audio reaches the pitch analyzer only in tuner mode:
\* processTunerAudioChunk called with an inactive state returns that state
\* unchanged whatever the audio contains, so detectedNote,
\* detectedFrequency and deviation change only in a call made while
\* isActive is true.
C22_InactiveIgnoresAudio ==
    /\ (IsChunkCall /\ ~argState.isActive) => tunerState = argState
    /\ ~SameDetection(tunerState, argState) => argState.isActive
\* an inactive state was given a chunk with a detectable pitch
C22_Witness ==
    /\ IsChunkCall
    /\ ~argState.isActive
    /\ Detected # Null
    /\ tunerState = argState

\* C23: inputs are ignored while a song loads: from the 'Searching for
\* chords' message of a 'play <song>' request until the timer started after
\* the lookup result has fired, isShowingMessage stays true (so key presses
\* do not move the song position and audio chunks do not reach the tuner),
\* under every interleaving with timers started by earlier messages.  A
\* timer of an earlier message sets isShowingMessage to false when it fires,
\* whatever is loading.
Loading ==
    \/ lookups # <<>>
    \/ \E k \in 1..Len(timers) :
           timers[k].callback \in {"songView", "chordViewIfSong"}
C23_BlockedWhileLoading == Loading => isShowingMessage

\* C24: input blocking is temporary: whenever isShowingMessage is true
\* (after startup, entering or leaving tuner mode, help, a song lookup or
\* Escape), it eventually becomes false again, provided the timers that
\* were set fire and the chord lookups settle.
C24_BlockingEnds == isShowingMessage ~> ~isShowingMessage
\* input is blocked by a lookup alone: no timer is pending
C24_Witness ==
    /\ isShowingMessage
    /\ lookups # <<>>
    /\ timers = <<>>

\* C25: navigateNext moves to the next line of the current section if there
\* is one, otherwise to line 0 of the next section, otherwise (last line of
\* the last section) back to line 0 of section 0; it changes nothing but
\* the two position indices.
C25_NavigateNext ==
    Returned("navigateNext") =>
        LET song == fnCall.song
            next == Val(fnResult)
            section == song.currentSectionIndex
            line == song.currentLineIndex
            lineCount == song.sections[section + 1].lines
        IN  /\ <<next.currentSectionIndex, next.currentLineIndex>> =
                   IF line + 1 < lineCount THEN <<section, line + 1>>
                   ELSE IF section + 1 < Len(song.sections)
                   THEN <<section + 1, 0>>
                   ELSE <<0, 0>>
            /\ next.title = song.title
            /\ next.sections = song.sections
            /\ DOMAIN next = DOMAIN song
\* the last line of the last section of the default song: back to the start
C25_Witness ==
    /\ Returned("navigateNext")
    /\ fnCall.song.title = "Let It Be"
    /\ fnCall.song.currentSectionIndex = 3
    /\ fnCall.song.currentLineIndex = 7
    /\ Val(fnResult).currentSectionIndex = 0
    /\ Val(fnResult).currentLineIndex = 0

\* C26: trying to go before the first position of the song (navigatePrevious
\* at line 0 of section 0) leaves the position at the beginning of the
\* song.  The code wraps to the last line of the last section.
C26_PreviousStaysAtStart ==
    ( /\ Returned("navigatePrevious")
      /\ fnCall.song.currentSectionIndex = 0
      /\ fnCall.song.currentLineIndex = 0 ) =>
        /\ Val(fnResult).currentSectionIndex = 0
        /\ Val(fnResult).currentLineIndex = 0

\* the character of a text at a column (from 0), "" beyond its end
CharAtColumn(text, column) ==
    IF column < Len(text) THEN CharAt(text, column + 1) ELSE ""

\* C27: every chunk returned by chunkLine(line, maxLength) is display-ready:
\* its lyrics have at most maxLength characters and its last chord ends at
\* or before column maxLength, for lines with lyrics and instrumental ones.
\* The code keeps in the first chunk every chord that starts before the
\* break point, however far it reaches, and never breaks the second chunk.
C27_ChunksDisplayReady ==
    Returned("chunkLine") =>
        \A i \in 1..Len(Val(fnResult)) :
            LET chunk == Val(fnResult)[i]
            IN  /\ chunk.lyrics # Null =>
                       Len(Val(chunk.lyrics)) <= fnCall.maxLength
                /\ maxChordPos(chunk) <= fnCall.maxLength

\* C28: for every chord that chunkLine moves into the second chunk, the
\* character of the second chunk's lyrics at its adjusted column is the
\* character of the original lyrics at its original column.  The code
\* trims the second chunk's lyrics without moving the chords with them.
C28_AlignmentKept ==
    ( /\ Returned("chunkLine")
      /\ HasLyrics(fnCall.line)
      /\ Len(Val(fnResult)) = 2 ) =>
        LET first == Val(fnResult)[1]
            second == Val(fnResult)[2]
        IN  \A j \in 1..Len(second.chords) :
                CharAtColumn(Val(second.lyrics), second.chord_positions[j])
                    = CharAtColumn(Val(fnCall.line.lyrics),
                          fnCall.line.chord_positions[Len(first.chords) + j])

\* C29: from the initial state on, detectedNote, detectedFrequency and
\* deviation are all absent or all present, and a detectedNote that is
\* present is one of the letters E, A, D, G, B, never the empty string.
C29_DetectionAllOrNothing ==
    /\ \/ /\ tunerState.detectedNote = Null
          /\ tunerState.detectedFrequency = Null
          /\ tunerState.deviation = Null
       \/ /\ tunerState.detectedNote # Null
          /\ tunerState.detectedFrequency # Null
          /\ tunerState.deviation # Null
    /\ tunerState.detectedNote # Null =>
           Val(tunerState.detectedNote) \in {"E", "A", "D", "G", "B"}
\* a chunk brought the first detection
C29_Witness ==
    /\ call.fn = "processTunerAudioChunk"
    /\ argState.detectedNote = Null
    /\ tunerState.detectedNote # Null
    /\ tunerState.deviation # Null

\* C30: display updates triggered by audio chunks are throttled.  A chunk
\* that updates the display (and sets lastTunerUpdateTime, the time of the
\* previous such update) comes more than 500 ms after the previous one, and
\* more than 1000 ms after it while the state holds no detected frequency;
\* and whether or not the display is updated, the TunerState after a handled
\* chunk is processTunerAudioChunk of the chunk and the state before.
C30_Throttled ==
    [][chunkCount' = chunkCount + 1 =>
          /\ (tunerState.isActive /\ ~isShowingMessage) =>
                 tunerState' = processTunerAudioChunk(call'.audioData,
                                                      tunerState, 16000)
          /\ (lastTunerUpdateTime' # lastTunerUpdateTime
                  \/ display' # display) =>
                 /\ lastTunerUpdateTime' = now
                 /\ now - lastTunerUpdateTime > 500
                 /\ tunerState'.detectedFrequency = Null =>
                        now - lastTunerUpdateTime > 1000]_vars
\* a chunk handled with no frequency in the state, more than 500 ms but not
\* more than 1000 ms after the previous update: no update
C30_Witness ==
    /\ event.handler = "onAudioChunk"
    /\ call.fn = "processTunerAudioChunk"
    /\ tunerState.detectedFrequency = Null
    /\ lastTunerUpdateTime > Epoch
    /\ now - lastTunerUpdateTime > 500
    /\ now - lastTunerUpdateTime <= 1000

RECURSIVE ChordsOf(_)
\* the chords of a sequence of chunks, in order
ChordsOf(chunks) ==
    IF chunks = <<>> THEN <<>>
    ELSE Head(chunks).chords \o ChordsOf(Tail(chunks))

\* C33: chunkLine neither loses nor duplicates chords: for a line whose
\* chord_positions are non-decreasing and as long as chords, the chords of
\* the returned chunks, concatenated in order, are the original chords, with
\* lyrics and without.
C33_ChordsKept ==
    Returned("chunkLine") =>
        ChordsOf(Val(fnResult)) = fnCall.line.chords
\* a lyric line broken in two with chords on both sides, one of them at the
\* break point
C33_Witness ==
    /\ Returned("chunkLine")
    /\ Len(Val(fnResult)) = 2
    /\ Val(fnResult)[1].chords # <<>>
    /\ Val(fnResult)[2].chords # <<>>
    /\ HasLyrics(fnCall.line)
    /\ \E j \in 1..Len(Val(fnResult)[2].chords) :
           Val(fnResult)[2].chord_positions[j] = 0

PositionOf(song) == <<song.currentSectionIndex, song.currentLineIndex>>
\* the positions of the lines of a song
ValidPositions(song) ==
    UNION {{<<k - 1, line>> : line \in 0..(song.sections[k].lines - 1)} :
              k \in 1..Len(song.sections)}
RECURSIVE NextTimes(_, _)
\* navigateNext applied k times
NextTimes(song, k) ==
    IF k = 0 THEN song ELSE navigateNext(NextTimes(song, k - 1))

C34_PositionValid ==
    fnResult # Null =>
        LET song == Val(fnResult)
        IN  /\ \A k \in 1..Len(song.sections) : song.sections[k].lines >= 1
            /\ song.currentSectionIndex \in 0..(Len(song.sections) - 1)
            /\ song.currentLineIndex
                   \in 0..(song.sections[song.currentSectionIndex + 1].lines - 1)
            /\ currentLineOverall(song) \in 1..totalLinesInSong(song)
\* a jump from a line whose index the target section does not have
C34_Witness ==
    /\ fnCall.fn = "jumpToSection"
    /\ fnResult # Null
    /\ PositionOf(Val(fnResult)) # PositionOf(fnCall.song)
    /\ fnCall.song.currentLineIndex
           >= Val(fnResult).sections[
                  Val(fnResult).currentSectionIndex + 1].lines

\* C37: findClosestGuitarNote(f) is the first letter of the table entry with
\* the smallest difference in hertz to f, the earliest one of equally near
\* entries: the branch for the low E string changes nothing.
C37_NearestInHz ==
    Returned("findClosestGuitarNote") =>
        Val(fnResult)
            = CharAt(NOTE_FREQUENCIES[NearestEntry(fnCall.frequency)].note, 1)
\* halfway between the A and the D string: the earlier entry, A
C37_Witness ==
    /\ Returned("findClosestGuitarNote")
    /\ fnCall.frequency - NOTE_FREQUENCIES[2].freq
           = NOTE_FREQUENCIES[3].freq - fnCall.frequency
    /\ Val(fnResult) = "A"

\* the frequencies of the open strings but the high E
LowerStrings == {NOTE_FREQUENCIES[k].freq : k \in 1..5}

\* C36: whatever commands handleTunerCommand has handled, the reference
\* frequency getTargetFrequency(targetNote) is 82.41, 110.00, 146.83, 196.00
\* or 246.94 Hz, never the 329.63 Hz of the high E string; and when the
\* target note is findClosestGuitarNote(f) for the frequency f of one of
\* these strings, a first detection of exactly f has deviation 0.
C36_ReferenceFrequency ==
    /\ getTargetFrequency(tunerState.targetNote) \in LowerStrings
    /\ getTargetFrequency(tunerState.targetNote) # 329630
    /\ \A f \in LowerStrings :
           tunerState.targetNote = findClosestGuitarNote(f) =>
               calculateCentsDeviation(
                   smoothFrequency(f, Null),
                   getTargetFrequency(tunerState.targetNote)) = 0
\* the D string named as the target and a first detection measured against
\* it
C36_Witness ==
    /\ call.fn = "processTunerAudioChunk"
    /\ argState.detectedFrequency = Null
    /\ tunerState.deviation # Null
    /\ tunerState.targetNote = "D"
    /\ tunerState.targetNote = findClosestGuitarNote(146830)

\* the lags findMultiplePeaks searches at the sample rate of the app
CandidateLags ==
    Max2(5, FloorDiv(SAMPLE_RATE, MAX_FREQUENCY))
        ..(CeilDiv(SAMPLE_RATE, MIN_FREQUENCY) - 1)
InRange(frequency) ==
    frequency >= Hz(MIN_FREQUENCY) /\ frequency <= Hz(MAX_FREQUENCY)
\* the frequency of the shortest period searched: 16000 / 45 = 355.56 Hz
TopCandidate == RoundDiv(Hz(SAMPLE_RATE), 45)

\* C38 as stated: at 16000 Hz every candidate frequency of the peak
\* extractor lies within [70, 350] Hz, so that the range check at the end of
\* detectPitch never discards a selected fundamental.
C38_CandidatesInRange ==
    /\ (Returned("findMultiplePeaks") /\ fnCall.sampleRate = SAMPLE_RATE) =>
           \A k \in 1..Len(Val(fnResult)) : InRange(Val(fnResult)[k].frequency)
    /\ Returned("detectPitch") =>
           Val(fnResult) = detectPitchNoRangeCheck(fnCall.audioData,
                                                   fnCall.sampleRate)

\* C38, amended: at 16000 Hz the candidates are 16000 / lag for the lags 45
\* to 228; all lie within [70, 350] Hz but the one of lag 45, 355.56 Hz; and
\* the range check at the end of detectPitch discards a selected fundamental
\* exactly when it is that one.
C38_CandidatesButLag45 ==
    /\ (Returned("findMultiplePeaks") /\ fnCall.sampleRate = SAMPLE_RATE) =>
           \A k \in 1..Len(Val(fnResult)) :
               LET peak == Val(fnResult)[k]
               IN  /\ peak.index \in CandidateLags
                   /\ peak.frequency = RoundDiv(Hz(SAMPLE_RATE), peak.index)
                   /\ InRange(peak.frequency) <=> peak.index # 45
    /\ Returned("detectPitch") =>
           LET selected == detectPitchNoRangeCheck(fnCall.audioData,
                                                   fnCall.sampleRate)
           IN  Val(fnResult) =
                   IF selected = Some(TopCandidate) THEN Null ELSE selected
    /\ \A lag \in CandidateLags :
           InRange(RoundDiv(Hz(SAMPLE_RATE), lag)) <=> lag # 45
\* a pure tone with a period of 45 samples: selected and discarded
C38_Witness ==
    /\ Returned("detectPitch")
    /\ fnCall.audioData = Tone(45)
    /\ detectPitchNoRangeCheck(fnCall.audioData, fnCall.sampleRate)
           = Some(TopCandidate)
    /\ Val(fnResult) = Null

\* what onTranscription read off the transcription c.command
HeardIn(c) ==
    TranscriptionTable[CHOOSE text \in Texts :
        TranscriptionTable[text].transcription = c.command]
\* the sections of song whose name contains sectionName, case-insensitively
MatchingSections(song, sectionName) ==
    {k \in 1..Len(song.sections) :
        Includes(ToLowerCase(song.sections[k].name), ToLowerCase(sectionName))}
\* the step is onTranscription reaching its 'go to' branch: chord mode before
\* and after, a song loaded, no 'play' and no help request in the text
GoToStep ==
    /\ event'.handler = "onTranscription"
    /\ call'.fn = "handleTunerCommand"
    /\ ~tunerState.isActive
    /\ ~tunerState'.isActive
    /\ currentSong # Null
    /\ HeardIn(call').play = Null
    /\ ~HeardIn(call').help
    /\ HeardIn(call').section # Null

\* C32: a 'go to <section>' command given while some section name contains
\* the requested name (case-insensitively) leaves the song at line 0 of the
\* first such section and shows 'Jumping to <section>...', never 'not
\* found'; when no section matches, the position is unchanged.  The handler
\* takes a jump whose target is the current section for a failed one.
C32_GoToSection ==
    [][GoToStep =>
        LET sectionName == Trim(Val(HeardIn(call').section))
            song == Val(currentSong)
            found == MatchingSections(song, sectionName)
        IN  IF found # {}
            THEN /\ Val(currentSong').currentSectionIndex
                        = (CHOOSE k \in found : \A j \in found : k <= j) - 1
                 /\ Val(currentSong').currentLineIndex = 0
                 /\ display'[event'.session]
                        = "Jumping to " \o sectionName \o "..."
            ELSE currentSong' = currentSong]_vars

\* the glasses of the session show the tuner view, the text of
\* formatTunerDisplay
TunerViewShown == StartsWith(display[SoloSession], "TARGET NOTE: ")
\* the last step ran the callback of the timer set on entering tuner mode,
\* which calls updateTunerDisplay
TunerViewTimerRan ==
    /\ event.handler = "setTimeout"
    /\ call.fn = "setTimeout"
    /\ call.command = "tunerView"
ExitedByVoice ==
    /\ event.handler = "onTranscription"
    /\ argState.isActive
    /\ ~tunerState.isActive
\* the glasses show what updateChordDisplay shows outside tuner mode
ChordDisplayShown ==
    /\ ~tunerState.isActive
    /\ display[SoloSession]
           = updateChordDisplay(App, SoloSession).display[SoloSession]

\* C31: the tuner view is shown only in tuner mode: under every
\* interleaving of voice commands, key presses and pending timers,
\* updateTunerDisplay is invoked only while tunerState.isActive is true.
\* The timer set on entering tuner mode calls it 1.5 s later whatever the
\* mode is by then.
C31_TunerViewOnlyInTunerMode ==
    /\ TunerViewShown => tunerState.isActive
    /\ TunerViewTimerRan => tunerState.isActive

\* C31, the second half: after an 'exit tuner' command that no input
\* follows, the chord display is eventually shown and stays the last thing
\* displayed
C31_ChordDisplayLast ==
    (ExitedByVoice /\ eventCount = MaxLiveEvents) ~> []ChordDisplayShown

=============================================================================
